---------------------------- MODULE Spec2Model ----------------------------
(***************************************************************************)
(* Rust4Diva: the mod acquisition engine.                                  *)
(*   - parse_dmm_url            (src/src/gamebanana_async.rs)              *)
(*   - main, single-instance dispatch (src/src/main.rs)                    *)
(*   - the one-click handler, the interactive download callback and the    *)
(*     search callback, with the UI event loop they hand off to            *)
(*                              (src/src/gamebanana_async.rs)              *)
(* Strings are sequences of one-character strings.                         *)
(***************************************************************************)
EXTENDS Integers, Sequences, FiniteSets, TLC

VARIABLES
    \* ---- parse_dmm_url applied to one input string
    p_in,        \* the string handed to parse_dmm_url
    p_out,       \* its result, once p_pc = "done"
    p_pc,        \* "input" | "done"
    \* ---- fetch_mod_data applied to one item id
    f_body,      \* the response body of the transfer
    f_chunks,    \* the pieces of the body curl has still to hand to write_function
    the_mod,     \* fetch_mod_data's local the_mod: None or Some(GBMod)
    f_pc,        \* "idle" | "call" | "transfer" | "done" | "panicked"
    \* ---- one record per process (a function over Procs)
    pc,          \* position of main
    args,        \* env::args of the process
    dmm_url,     \* main's local dmm_url: None or Some(url)
    fwd,         \* result of try_send_mmdl: "none" | "ok" | "err"
    ui,          \* App::new() has run
    chans,       \* the url and download channels exist
    listener,    \* the process's listener is up
    url_chan,    \* inbound url channel: urls sent and not yet received
    h_pc,        \* the one-click handler task: "unreg" | "recv" | "fetch" | "find" | "panicked"
    h_req,       \* the handler's parsed request (oneclick)
    h_mod,       \* the handler's fetched detail (mod_info)
    evq,         \* closures handed to the UI event loop, in posting order
    downloads,   \* the downloads list model of the UI
    dl_chan,     \* (position, task) pairs sent on the outbound download channel
    requests,    \* history: file ids in the order their enqueue was requested
    own_sent,    \* history: main's url_tx.send(url) returned Ok
    used,        \* history: what the environment has issued, [urls, clicks,
                 \* searches, lists] counted, reports the progress reports
    \* ---- search state of the UI
    s_results,   \* the held result model: [vec, items]
    n_results,   \* the total count shown
    s_prog_vis,  \* the search-progress indicator
    searches,    \* search tasks spawned and not yet completed
    thumbs,      \* get_preview_image tasks spawned and not yet completed
    s_log,       \* history: [shown, reply, failed, panics] the number of
                 \* the newest search handed off, the reply the last
                 \* completed search got, the requests that ended in an
                 \* error, the tasks a panic ended
    \* ---- the details windows of the UI
    deets,       \* the GbDetailsWindow instances: [data, files, description]
    details,     \* tasks on_list_files spawned and not yet completed
    \* ---- first-run setup and the legacy-configuration importer
    dmm_cfg,     \* DMM_CFG: None or Some(DmmConfig)
    diva_cfg,    \* DIVA_CFG: [dark_mode, diva_dir, first_run, priority]
    setup,       \* the FirstSetup window: [shown, dark_mode, diva_dir, loadouts]
    i_tasks,     \* tasks the setup callbacks spawned and not yet completed
    i_log,       \* history: the last Config.json read, the last apply, and
                 \* the I/O steps made with the thread that made each
    \* ---- one per process
    notices      \* error windows opened (open_error_window calls)

vars == <<p_in, p_out, p_pc, f_body, f_chunks, the_mod, f_pc, pc, args, dmm_url, fwd, ui, chans, listener,
          url_chan, h_pc, h_req, h_mod, evq, downloads, dl_chan, requests,
          own_sent, used, s_results, n_results, s_prog_vis, searches,
          thumbs, notices, s_log, deets, details, dmm_cfg, diva_cfg, setup,
          i_tasks, i_log>>

parseVars == <<p_in, p_out, p_pc>>
fetchVars == <<f_body, f_chunks, the_mod, f_pc>>
procVars == <<pc, args, dmm_url, fwd, ui, chans, listener, url_chan, h_pc,
              h_req, h_mod, evq, downloads, dl_chan, requests, own_sent, used>>
searchVars == <<s_results, n_results, s_prog_vis, searches, thumbs, s_log>>
detailVars == <<deets, details>>
importVars == <<dmm_cfg, diva_cfg, setup, i_tasks, i_log>>

-----------------------------------------------------------------------------
(* Bounds of the model *)

\* longest text after the known prefix in a parse_dmm_url input
MaxSuffixLen == 7

-----------------------------------------------------------------------------
(* Option values *)

None == [some |-> FALSE]
Some(x) == [some |-> TRUE, val |-> x]

-----------------------------------------------------------------------------
(* Strings *)

Digits == {"0", "1", "2", "3", "4", "5", "6", "7", "8", "9"}

IsDigit(c) == c \in Digits

\* str::starts_with
StartsWith(s, pre) ==
    /\ Len(s) >= Len(pre)
    /\ SubSeq(s, 1, Len(pre)) = pre

\* "divamodmanager:https://gamebanana.com/mmdl/"
DMM_PREFIX ==
    <<"d", "i", "v", "a", "m", "o", "d", "m", "a", "n", "a", "g", "e", "r",
      ":", "h", "t", "t", "p", "s", ":", "/", "/", "g", "a", "m", "e", "b",
      "a", "n", "a", "n", "a", ".", "c", "o", "m", "/", "m", "m", "d", "l",
      "/">>

\* Last index of the run of digits of s that starts at i (i - 1: s[i] is no digit).
DigitRunEnd(s, i) ==
    LET ends == {j \in i..Len(s) : \A k \in i..j : IsDigit(s[k])}
    IN  IF ends = {} THEN i - 1 ELSE CHOOSE j \in ends : \A k \in ends : k <= j

\* The regex's second comma, for a match whose group 2 starts at a: the comma
\* is followed by a digit and group 2 (.+) is non-empty and holds no line
\* break ("." matches any character but \n; a comma is matched like any other).
SecondCommas(s, a) ==
    {c \in (a + 1)..(Len(s) - 1) :
        /\ s[c] = ","
        /\ IsDigit(s[c + 1])
        /\ \A k \in a..(c - 1) : s[k] # "\n"}

\* Regex ([0-9]+),(.+),([0-9]+) tried at start position i: the three groups,
\* each repetition greedy.
RegexAt(s, i) ==
    LET e1 == DigitRunEnd(s, i)
        a  == e1 + 2
    IN  IF e1 < i \/ e1 + 1 > Len(s) THEN None
        ELSE IF s[e1 + 1] # "," THEN None
        ELSE IF SecondCommas(s, a) = {} THEN None
        ELSE LET c == CHOOSE x \in SecondCommas(s, a) :
                          \A y \in SecondCommas(s, a) : y <= x
             IN  Some([g1 |-> SubSeq(s, i, e1),
                       g2 |-> SubSeq(s, a, c - 1),
                       g3 |-> SubSeq(s, c + 1, DigitRunEnd(s, c + 1))])

\* Regex::captures: the leftmost match in the whole string (unanchored search).
Captures(s) ==
    LET starts == {i \in 1..Len(s) : RegexAt(s, i).some}
    IN  IF starts = {} THEN None
        ELSE RegexAt(s, CHOOSE i \in starts : \A j \in starts : i <= j)

\* parse_dmm_url: None, or Some(GbDmmItem)
parse_dmm_url(url) ==
    IF ~StartsWith(url, DMM_PREFIX) THEN None
    ELSE LET m_info == Captures(url)
         IN  IF ~m_info.some THEN None
             ELSE Some([file_id  |-> m_info.val.g1,
                        itemtype |-> m_info.val.g2,
                        item_id  |-> m_info.val.g3])

-----------------------------------------------------------------------------
(* The documented deep-link grammar:                                       *)
(*   <prefix> digits "," item type (no comma) "," digits                   *)

Commas(r) == {i \in 1..Len(r) : r[i] = ","}

AllDigits(r) == Len(r) >= 1 /\ \A i \in 1..Len(r) : IsDigit(r[i])

\* the text after the known prefix
Remainder(url) == SubSeq(url, Len(DMM_PREFIX) + 1, Len(url))

\* r is digits, comma, one or more non-comma characters, comma, digits
GrammarSuffix(r) ==
    /\ Cardinality(Commas(r)) = 2
    /\ LET c1 == CHOOSE i \in Commas(r) : \A j \in Commas(r) : i <= j
           c2 == CHOOSE i \in Commas(r) : \A j \in Commas(r) : j <= i
       IN  /\ AllDigits(SubSeq(r, 1, c1 - 1))
           /\ c2 - c1 >= 2
           /\ AllDigits(SubSeq(r, c2 + 1, Len(r)))

IsGrammar(url) == StartsWith(url, DMM_PREFIX) /\ GrammarSuffix(Remainder(url))

\* (fileId, itemType, itemId) as written in a grammar url
Written(url) ==
    LET r  == Remainder(url)
        c1 == CHOOSE i \in Commas(r) : \A j \in Commas(r) : i <= j
        c2 == CHOOSE i \in Commas(r) : \A j \in Commas(r) : j <= i
    IN  [file_id  |-> SubSeq(r, 1, c1 - 1),
         itemtype |-> SubSeq(r, c1 + 1, c2 - 1),
         item_id  |-> SubSeq(r, c2 + 1, Len(r))]

-----------------------------------------------------------------------------
(* parse_dmm_url applied to one input *)

\* characters of the inputs: a digit, the comma, a letter, a blank, a line break
Chars == {"1", ",", "a", " ", "\n"}

SeqsUpTo(S, n) == UNION {[1..k -> S] : k \in 0..n}

\* the known prefix with its last character missing
SHORT_PREFIX == SubSeq(DMM_PREFIX, 1, Len(DMM_PREFIX) - 1)

\* how an input starts: the known prefix, all but its last character, nothing
Starts == {DMM_PREFIX, SHORT_PREFIX, <<>>}

\* longest text after the start pre
SuffixLen(pre) == IF pre = DMM_PREFIX THEN MaxSuffixLen ELSE MaxSuffixLen - 2

ParseInit ==
    /\ \E pre \in Starts :
        \E s \in SeqsUpTo(Chars, SuffixLen(pre)) : p_in = pre \o s
    /\ p_out = None
    /\ p_pc = "input"

ParseCall ==
    /\ p_pc = "input"
    /\ p_out' = parse_dmm_url(p_in)
    /\ p_pc' = "done"
    /\ UNCHANGED <<p_in, fetchVars, procVars, searchVars, notices,
                   detailVars, importVars>>

-----------------------------------------------------------------------------
(* Bounds of the process model *)

\* urls another instance forwards to the running instance
MaxUrls == 2
\* on_download_file calls of the user
MaxClicks == 2

-----------------------------------------------------------------------------
(* Data *)

Procs == {1, 2}

\* u32::to_string, the decimal form
RECURSIVE to_string(_)
to_string(n) ==
    LET d == <<"0", "1", "2", "3", "4", "5", "6", "7", "8", "9">>[(n % 10) + 1]
    IN  IF n < 10 THEN <<d>> ELSE to_string(n \div 10) \o <<d>>

\* GbModDownload values of the remote service (ids are u32, here below 2^31,
\* where the cast "as i32" keeps the value)
GbFile(n) ==
    [id |-> n, file |-> <<"f">> \o to_string(n), filesize |-> 10 * n,
     download_url |-> <<"u">> \o to_string(n)]

\* the remote service: item id -> GBMod (name, files in response order, text)
ServerMods ==
    (<<"1">> :> [name |-> "m1", files |-> <<GbFile(1), GbFile(2)>>, text |-> "t1"])
    @@ (<<"2">> :> [name |-> "m2", files |-> <<GbFile(3)>>, text |-> "t2"])

\* impl From<GbModDownload> for Download
FromGbModDownload(value) ==
    [failed |-> FALSE, id |-> value.id, name |-> value.file, progress |-> 0,
     size |-> value.filesize, url |-> value.download_url]

\* a hand-off whose Download starts half received; the progress property
\* C16 tells it from OneclickDownload
OneclickDownload_started(file) ==
    [id |-> file.id, name |-> file.file, progress |-> 1,
     size |-> file.filesize, url |-> file.download_url, failed |-> FALSE]

\* the Download built by the one-click hand-off
OneclickDownload(file) ==
    [id |-> file.id, name |-> file.file, progress |-> 0,
     size |-> file.filesize, url |-> file.download_url, failed |-> FALSE]

\* fetch_mod_data: what the call ends in. The transfer or a file entry that
\* does not decode panics (unwrap); a body that is no positional response,
\* or that no single piece handed to write_function holds whole, gives None;
\* else the mod the service holds for the item.
FetchOutcomes(mod_id) ==
    IF mod_id = <<>> THEN {[kind |-> "none"]}
    ELSE {[kind |-> "panic"], [kind |-> "none"]}
         \cup (IF mod_id \in DOMAIN ServerMods
               THEN {[kind |-> "some", mod |-> ServerMods[mod_id]]}
               ELSE {})

\* a lookup that takes the first file whatever the request names; the
\* resolution property C5 tells it from FindFile
FindFile_first(files, file_id) ==
    IF files = <<>> THEN None ELSE Some(files[1])

\* files.iter().cloned().find(|file| file.id.to_string() == oneclick.file_id)
FindFile(files, file_id) ==
    LET hits == {i \in 1..Len(files) : to_string(files[i].id) = file_id}
    IN  IF hits = {} THEN None
        ELSE Some(files[CHOOSE i \in hits : \A j \in hits : i <= j])

\* capacity of both channels
CHANNEL_CAP == 2048

\* Sender::try_send on the download channel: dropped when the channel is full
TrySend(ch, msg) == IF Len(ch) < CHANNEL_CAP THEN Append(ch, msg) ELSE ch

\* deep links of the model: file 1 and file 2 of item 1, a file item 1 does
\* not hold, file 1 written with a leading zero, and a text that is no deep link
Url(suffix) == DMM_PREFIX \o suffix
U1 == Url(<<"1", ",", "a", ",", "1">>)
U2 == Url(<<"2", ",", "a", ",", "1">>)
U3 == Url(<<"3", ",", "a", ",", "1">>)
U01 == Url(<<"0", "1", ",", "a", ",", "1">>)
NoUrl == <<"x">>
DeepLinks == {U1, U2, U3, U01}

\* (file, file_row) pairs the details window offers: the rows of a mod's files
DetailRows ==
    UNION {{[file |-> FromGbModDownload(ServerMods[m].files[i]),
             file_row |-> i - 1] : i \in 1..Len(ServerMods[m].files)} :
           m \in DOMAIN ServerMods}

\* the program path, env::args' first entry
Exe == <<"r", "4", "d">>

\* command lines of a launch: no deep link, a deep link, a deep link after
\* an argument that is none
ArgChoices == {<<Exe>>, <<Exe, U1>>, <<Exe, U3>>, <<Exe, NoUrl, U2>>}

NoReq == [file_id |-> <<>>, itemtype |-> <<>>, item_id |-> <<>>]
NoMod == [name |-> "", files |-> <<>>, text |-> ""]

\* a closure handed to the UI event loop by upgrade_in_event_loop
Closure(kind, arg) == [kind |-> kind, arg |-> arg]

\* the downloads list the UI holds once the application is set up: a
\* VecModel<Download>, empty
DownloadsModel == [vec |-> TRUE, items |-> <<>>]

-----------------------------------------------------------------------------
(* main *)

\* for arg in args: the first argument parse_dmm_url accepts
FirstDeepLink(as) ==
    LET hits == {i \in 1..Len(as) : parse_dmm_url(as[i]).some}
    IN  IF hits = {} THEN None
        ELSE Some(as[CHOOSE i \in hits : \A j \in hits : i <= j])

\* main, the loop over the arguments up to the call of try_send_mmdl
MainArgs(p) ==
    /\ pc[p] = "args"
    /\ dmm_url' = [dmm_url EXCEPT ![p] = FirstDeepLink(args[p])]
    /\ pc' = [pc EXCEPT ![p] = IF FirstDeepLink(args[p]).some
                               THEN "forward" ELSE "init"]
    /\ UNCHANGED <<args, fwd, ui, chans, listener, url_chan, h_pc, h_req,
                   h_mod, evq, downloads, dl_chan, requests, own_sent, used,
                   parseVars, fetchVars, searchVars, notices, detailVars, importVars>>

\* the instances whose listener is up, as the forwarding process p sees them
Receivers(p) == {q \in Procs \ {p} : listener[q]}

\* try_send_mmdl: Ok when a running instance's listener takes the url
try_send_mmdl(p) == IF Receivers(p) = {} THEN "err" ELSE "ok"

\* the listener of q hands a received url to its url_tx; the send fails once
\* the receiving half is gone
ListenerDeliver(q, u) ==
    IF h_pc[q] = "panicked" THEN url_chan
    ELSE [url_chan EXCEPT ![q] = Append(@, u)]

\* a main that goes on to initialize whatever the forwarding returned; the
\* exit property C6 tells it from AfterForward
AfterForward_stay(res) == "init"

\* match try_send_mmdl(..).await: Ok => return, Err => break out of the loop
AfterForward(res) == IF res = "ok" THEN "exited" ELSE "init"

MainForward(p) ==
    /\ pc[p] = "forward"
    /\ fwd' = [fwd EXCEPT ![p] = try_send_mmdl(p)]
    /\ url_chan' = IF Receivers(p) = {} THEN url_chan
                   ELSE ListenerDeliver(CHOOSE q \in Receivers(p) : TRUE,
                                        dmm_url[p].val)
    /\ pc' = [pc EXCEPT ![p] = AfterForward(try_send_mmdl(p))]
    /\ UNCHANGED <<args, dmm_url, ui, chans, listener, h_pc, h_req, h_mod,
                   evq, downloads, dl_chan, requests, own_sent, used,
                   parseVars, fetchVars, searchVars, notices, detailVars, importVars>>

\* create_tmp_if_not, App::new, the two channels
MainInit(p) ==
    /\ pc[p] = "init"
    /\ ui' = [ui EXCEPT ![p] = TRUE]
    /\ chans' = [chans EXCEPT ![p] = TRUE]
    /\ pc' = [pc EXCEPT ![p] = "listen"]
    /\ UNCHANGED <<args, dmm_url, fwd, listener, url_chan, h_pc, h_req,
                   h_mod, evq, downloads, dl_chan, requests, own_sent, used,
                   parseVars, fetchVars, searchVars, notices, detailVars, importVars>>

\* spawn_listener: Ok when no other instance holds the local address
spawn_listener(p) == \A q \in Procs \ {p} : ~listener[q]

\* a main that gives up when its listener cannot start; the best-effort
\* property C8 tells it from AfterListen
AfterListen_exit(ok) == IF ok THEN "gb_init" ELSE "exited"

\* match spawn_listener(..).await: Ok => {}, Err => a notice; main goes on
AfterListen(ok) == "gb_init"

MainListen(p) ==
    /\ pc[p] = "listen"
    /\ listener' = [listener EXCEPT ![p] = spawn_listener(p)]
    /\ notices' = [notices EXCEPT ![p] =
                      IF spawn_listener(p) THEN @ ELSE @ + 1]
    /\ pc' = [pc EXCEPT ![p] = AfterListen(spawn_listener(p))]
    /\ UNCHANGED <<args, dmm_url, fwd, ui, chans, url_chan, h_pc, h_req,
                   h_mod, evq, downloads, dl_chan, requests, own_sent, used,
                   parseVars, fetchVars, searchVars, detailVars, importVars>>

\* configuration, mods table, then the init calls: gamebanana_async::init
\* registers the callbacks and spawns handle_dmm_oneclick on url_rx
MainGbInit(p) ==
    /\ pc[p] = "gb_init"
    /\ h_pc' = [h_pc EXCEPT ![p] = "recv"]
    /\ downloads' = [downloads EXCEPT ![p] = DownloadsModel]
    /\ pc' = [pc EXCEPT ![p] = "send_url"]
    /\ UNCHANGED <<args, dmm_url, fwd, ui, chans, listener, url_chan, h_req,
                   h_mod, evq, dl_chan, requests, own_sent, used,
                   parseVars, fetchVars, searchVars, notices, detailVars, importVars>>

\* url_tx.send(url).await is Ok while the handler holds the receiving half
OwnSendOk(p) == dmm_url[p].some /\ h_pc[p] # "panicked"

\* if let Some(url) = dmm_url { url_tx.send(url) }, then app.show and
\* run_event_loop
MainSendUrl(p) ==
    /\ pc[p] = "send_url"
    /\ url_chan' = IF OwnSendOk(p)
                   THEN [url_chan EXCEPT ![p] = Append(@, dmm_url[p].val)]
                   ELSE url_chan
    /\ own_sent' = [own_sent EXCEPT ![p] = OwnSendOk(p)]
    /\ notices' = [notices EXCEPT ![p] =
                      IF dmm_url[p].some /\ ~OwnSendOk(p) THEN @ + 1 ELSE @]
    /\ pc' = [pc EXCEPT ![p] = "running"]
    /\ UNCHANGED <<args, dmm_url, fwd, ui, chans, listener, h_pc, h_req,
                   h_mod, evq, downloads, dl_chan, requests, used,
                   parseVars, fetchVars, searchVars, detailVars, importVars>>

-----------------------------------------------------------------------------
(* handle_dmm_oneclick: the task that serves the inbound url channel *)

\* url_rx.recv().await, then parse_dmm_url(url); mod_info of the iteration
\* before is gone
HandlerRecv(p) ==
    /\ h_pc[p] = "recv"
    /\ url_chan[p] # <<>>
    /\ url_chan' = [url_chan EXCEPT ![p] = Tail(@)]
    /\ LET oneclick == parse_dmm_url(Head(url_chan[p]))
       IN  /\ h_req' = [h_req EXCEPT ![p] = IF oneclick.some
                                            THEN oneclick.val ELSE @]
           /\ h_pc' = [h_pc EXCEPT ![p] = IF oneclick.some
                                          THEN "fetch" ELSE "recv"]
    /\ h_mod' = [h_mod EXCEPT ![p] = NoMod]
    /\ UNCHANGED <<pc, args, dmm_url, fwd, ui, chans, listener, evq,
                   downloads, dl_chan, requests, own_sent, used,
                   parseVars, fetchVars, searchVars, notices, detailVars, importVars>>

\* fetch_mod_data(oneclick.item_id): a panic ends the task and drops url_rx
HandlerFetch(p) ==
    /\ h_pc[p] = "fetch"
    /\ \E o \in FetchOutcomes(h_req[p].item_id) :
        /\ h_pc' = [h_pc EXCEPT ![p] =
                        IF o.kind = "panic" THEN "panicked"
                        ELSE IF o.kind = "none" THEN "recv" ELSE "find"]
        /\ h_mod' = [h_mod EXCEPT ![p] = IF o.kind = "some" THEN o.mod ELSE @]
        /\ url_chan' = [url_chan EXCEPT ![p] =
                            IF o.kind = "panic" THEN <<>> ELSE @]
    /\ UNCHANGED <<pc, args, dmm_url, fwd, ui, chans, listener, h_req, evq,
                   downloads, dl_chan, requests, own_sent, used,
                   parseVars, fetchVars, searchVars, notices, detailVars, importVars>>

\* the file of mod_info the request names, handed to the UI event loop
HandlerFind(p) ==
    /\ h_pc[p] = "find"
    /\ LET files == FindFile(h_mod[p].files, h_req[p].file_id)
       IN  /\ evq' = [evq EXCEPT ![p] =
                        IF files.some
                        THEN Append(@, Closure("oneclick", [file |-> files.val]))
                        ELSE @]
           /\ requests' = [requests EXCEPT ![p] =
                        IF files.some THEN Append(@, files.val.id) ELSE @]
    /\ h_pc' = [h_pc EXCEPT ![p] = "recv"]
    /\ UNCHANGED <<pc, args, dmm_url, fwd, ui, chans, listener, url_chan,
                   h_req, h_mod, downloads, dl_chan, own_sent, used,
                   parseVars, fetchVars, searchVars, notices, detailVars, importVars>>

\* another instance forwards a url to the listener of the running instance
ForwardedUrl(p, u) ==
    /\ listener[p]
    /\ used[p].urls < MaxUrls
    /\ url_chan' = ListenerDeliver(p, u)
    /\ used' = [used EXCEPT ![p].urls = @ + 1]
    /\ UNCHANGED <<pc, args, dmm_url, fwd, ui, chans, listener, h_pc, h_req,
                   h_mod, evq, downloads, dl_chan, requests, own_sent,
                   parseVars, fetchVars, searchVars, notices, detailVars, importVars>>

-----------------------------------------------------------------------------
(* fetch_mod_data: the legacy item request of the one-click handler. curl   *)
(* hands the response body to write_function piece by piece                 *)

\* pieces curl may cut one body into
MaxChunks == 3

\* a piece of JSON text: punctuation, a string, a whole file object (n = 0:
\* one that does not decode as GbModDownload), or one half of a string that
\* is cut inside a two-byte character
Tok(k, v) == [k |-> k, v |-> v]
Punct(k) == Tok(k, "")
JStr(v) == Tok("str", v)
JFile(n) == Tok("file", to_string(n))

\* response bodies: the positional response of item 1 and of item 2 (its
\* description holds a two-byte character), an error page, and a positional
\* response with a file entry that does not decode
Body1 ==
    <<Punct("["), JStr("m1"), Punct(","),
      Punct("{"), JStr("1"), Punct(":"), JFile(1), Punct(","),
                  JStr("2"), Punct(":"), JFile(2), Punct("}"), Punct(","),
      JStr("t1"), Punct("]")>>
Body2 ==
    <<Punct("["), JStr("m2"), Punct(","),
      Punct("{"), JStr("3"), Punct(":"), JFile(3), Punct("}"), Punct(","),
      Tok("strL", "t2"), Tok("strR", "t2"), Punct("]")>>
Bodies ==
    {Body1, Body2,
     <<Punct("{"), JStr("e"), Punct(":"), JStr("x"), Punct("}")>>,
     <<Punct("["), JStr("m3"), Punct(","),
       Punct("{"), JStr("4"), Punct(":"), JFile(0), Punct("}"), Punct(","),
       JStr("t3"), Punct("]")>>}

\* the ways to cut body into at most MaxChunks pieces: the places cut after
CutSets(body) ==
    {c \in SUBSET (1..(Len(body) - 1)) : Cardinality(c) < MaxChunks}

\* the pieces of body for the cuts c, in order
RECURSIVE Pieces(_, _, _)
Pieces(body, c, from) ==
    IF from > Len(body) THEN <<>>
    ELSE LET ends == {e \in c : e >= from} \cup {Len(body)}
             to == CHOOSE e \in ends : \A d \in ends : e <= d
         IN  <<SubSeq(body, from, to)>> \o Pieces(body, c, to + 1)

\* data.lines() with line.unwrap(): a piece that starts or ends inside a
\* two-byte character is not UTF-8 and the unwrap panics
Utf8(data) == data[1].k # "strR" /\ data[Len(data)].k # "strL"

\* the text of a piece: the halves of a cut string are one string again
RECURSIVE Lex(_)
Lex(data) ==
    IF data = <<>> THEN <<>>
    ELSE IF Len(data) >= 2 /\ data[1].k = "strL" /\ data[2].k = "strR"
    THEN <<JStr(data[1].v)>> \o Lex(SubSeq(data, 3, Len(data)))
    ELSE <<Head(data)>> \o Lex(Tail(data))

\* a sonic_rs::Value read from the head of a text, and the rest of the text
Parsed(val, rest) == [ok |-> TRUE, val |-> val, rest |-> rest]

\* a JSON value at the head of ts, and what follows it
RECURSIVE ParseValue(_)
RECURSIVE ParseItems(_, _)
RECURSIVE ParseMembers(_, _, _)
ParseValue(ts) ==
    IF ts = <<>> THEN [ok |-> FALSE]
    ELSE IF ts[1].k = "str" THEN Parsed([t |-> "str", s |-> ts[1].v], Tail(ts))
    ELSE IF ts[1].k = "file" THEN Parsed([t |-> "file", n |-> ts[1].v], Tail(ts))
    ELSE IF ts[1].k = "["
    THEN IF Len(ts) >= 2 /\ ts[2].k = "]"
         THEN Parsed([t |-> "arr", items |-> <<>>], SubSeq(ts, 3, Len(ts)))
         ELSE ParseItems(Tail(ts), <<>>)
    ELSE IF ts[1].k = "{"
    THEN IF Len(ts) >= 2 /\ ts[2].k = "}"
         THEN Parsed([t |-> "obj", keys |-> <<>>, vals |-> <<>>],
                     SubSeq(ts, 3, Len(ts)))
         ELSE ParseMembers(Tail(ts), <<>>, <<>>)
    ELSE [ok |-> FALSE]

ParseItems(ts, acc) ==
    LET r == ParseValue(ts)
    IN  IF ~r.ok THEN [ok |-> FALSE]
        ELSE IF r.rest = <<>> THEN [ok |-> FALSE]
        ELSE IF r.rest[1].k = ","
        THEN ParseItems(Tail(r.rest), Append(acc, r.val))
        ELSE IF r.rest[1].k = "]"
        THEN Parsed([t |-> "arr", items |-> Append(acc, r.val)], Tail(r.rest))
        ELSE [ok |-> FALSE]

ParseMembers(ts, keys, vals) ==
    IF Len(ts) < 3 THEN [ok |-> FALSE]
    ELSE IF ts[1].k # "str" \/ ts[2].k # ":" THEN [ok |-> FALSE]
    ELSE LET r == ParseValue(SubSeq(ts, 3, Len(ts)))
         IN  IF ~r.ok THEN [ok |-> FALSE]
             ELSE IF r.rest = <<>> THEN [ok |-> FALSE]
             ELSE IF r.rest[1].k = ","
             THEN ParseMembers(Tail(r.rest), Append(keys, ts[1].v),
                               Append(vals, r.val))
             ELSE IF r.rest[1].k = "}"
             THEN Parsed([t |-> "obj", keys |-> Append(keys, ts[1].v),
                          vals |-> Append(vals, r.val)], Tail(r.rest))
             ELSE [ok |-> FALSE]

\* sonic_rs::from_str::<sonic_rs::Value>: the whole text is one value
from_str_Value(ts) ==
    LET r == ParseValue(ts)
    IN  IF r.ok /\ r.rest = <<>> THEN [ok |-> TRUE, val |-> r.val]
        ELSE [ok |-> FALSE]

\* mod_data[i]: the i-th item of an array, counted from 0, null otherwise
Index(val, i) ==
    IF val.t = "arr" /\ i < Len(val.items) THEN val.items[i + 1]
    ELSE [t |-> "null"]

\* Value::to_string: the JSON text of the value, a string with its quotes
Value_to_string(val) ==
    IF val.t = "str" THEN <<"\"", val.s, "\"">>
    ELSE IF val.t = "null" THEN <<"null">>
    ELSE <<val.t>>

\* sonic_rs::from_value::<GbModDownload>(value)
from_value_GbModDownload(val) ==
    IF val.t = "file" /\ val.n # to_string(0)
    THEN [ok |-> TRUE,
          file |-> GbFile(CHOOSE n \in 1..9 : to_string(n) = val.n)]
    ELSE [ok |-> FALSE]

\* the closure given to transfer.write_function, run on one piece with
\* the_mod as cur: a piece that is not UTF-8 panics; one that is not a JSON
\* text, or whose item 1 is no object, leaves the_mod; else every entry of
\* the object is decoded (unwrap: a failure panics) and the_mod is set
write_function(cur, data) ==
    IF ~Utf8(data) THEN [panicked |-> TRUE, the_mod |-> cur]
    ELSE LET res == from_str_Value(Lex(data))
         IN  IF ~res.ok THEN [panicked |-> FALSE, the_mod |-> cur]
             ELSE LET info_mods == Index(res.val, 1)
                  IN  IF info_mods.t # "obj"
                      THEN [panicked |-> FALSE, the_mod |-> cur]
                      ELSE LET dl == [k \in 1..Len(info_mods.vals) |->
                                        from_value_GbModDownload(info_mods.vals[k])]
                           IN  IF \E k \in 1..Len(dl) : ~dl[k].ok
                               THEN [panicked |-> TRUE, the_mod |-> cur]
                               ELSE [panicked |-> FALSE,
                                     the_mod |-> Some(
                                        [name |-> Value_to_string(Index(res.val, 0)),
                                         files |-> [k \in 1..Len(dl) |-> dl[k].file],
                                         text |-> Value_to_string(Index(res.val, 2))])]

\* item ids fetch_mod_data is called with
FetchIds == {<<>>, <<"1">>}

\* fetch_mod_data(mod_id): an empty id returns None at once; else the
\* transfer starts, the service answering with body, cut at the places c
FetchCall(mod_id, body, c) ==
    /\ f_pc = "call"
    /\ f_pc' = IF mod_id = <<>> THEN "done" ELSE "transfer"
    /\ f_body' = IF mod_id = <<>> THEN <<>> ELSE body
    /\ f_chunks' = IF mod_id = <<>> THEN <<>> ELSE Pieces(body, c, 1)
    /\ the_mod' = None
    /\ UNCHANGED <<parseVars, procVars, searchVars, notices, detailVars,
                   importVars>>

\* curl hands the next piece to write_function
WriteFunction ==
    /\ f_pc = "transfer"
    /\ f_chunks # <<>>
    /\ LET r == write_function(the_mod, Head(f_chunks))
       IN  /\ the_mod' = r.the_mod
           /\ f_pc' = IF r.panicked THEN "panicked" ELSE "transfer"
    /\ f_chunks' = Tail(f_chunks)
    /\ UNCHANGED <<f_body, parseVars, procVars, searchVars, notices,
                   detailVars, importVars>>

\* the transfer is over: transfer.perform().unwrap(), easy.perform().unwrap()
\* (ok: neither fails) and return the_mod
FetchReturn(ok) ==
    /\ f_pc = "transfer"
    /\ f_chunks = <<>>
    /\ f_pc' = IF ok THEN "done" ELSE "panicked"
    /\ UNCHANGED <<f_body, f_chunks, the_mod, parseVars, procVars, searchVars,
                   notices, detailVars, importVars>>

-----------------------------------------------------------------------------
(* on_download_file: the interactive download callback, on the UI thread *)

OnDownloadFile(p, file, file_row) ==
    /\ pc[p] = "running"
    /\ used[p].clicks < MaxClicks
    /\ evq' = [evq EXCEPT ![p] =
                  Append(@, Closure("interactive", [file |-> file]))]
    /\ dl_chan' = [dl_chan EXCEPT ![p] = TrySend(@, <<file_row, file>>)]
    /\ requests' = [requests EXCEPT ![p] = Append(@, file.id)]
    /\ used' = [used EXCEPT ![p].clicks = @ + 1]
    /\ UNCHANGED <<pc, args, dmm_url, fwd, ui, chans, listener, url_chan,
                   h_pc, h_req, h_mod, downloads, own_sent,
                   parseVars, fetchVars, searchVars, notices, detailVars, importVars>>

-----------------------------------------------------------------------------
(* reportProgress: the transport's progress reports to the coordinator *)

\* progress reports of the transport
MaxReports == 2

\* fractions received, in halves: 0.0, 0.5, 1.0
Fractions == {0, 1, 2}

\* a report for the task at position k of the list: a fraction below the
\* task's progress is ignored
reportProgress(d, k, fraction) ==
    [d EXCEPT !.items[k].progress = IF fraction < @ THEN @ ELSE fraction]

ReportProgress(p, k, fraction) ==
    /\ pc[p] = "running"
    /\ Len(used[p].reports) < MaxReports
    /\ k \in DOMAIN downloads[p].items
    /\ downloads' = [downloads EXCEPT ![p] = reportProgress(@, k, fraction)]
    /\ used' = [used EXCEPT ![p].reports =
                    Append(@, [pos |-> k, fraction |-> fraction])]
    /\ UNCHANGED <<pc, args, dmm_url, fwd, ui, chans, listener, url_chan,
                   h_pc, h_req, h_mod, evq, dl_chan, requests, own_sent,
                   parseVars, fetchVars, searchVars, notices, detailVars, importVars>>

-----------------------------------------------------------------------------
(* Search *)

\* on_search calls of the user
MaxSearches == 2
\* records of one search response
MaxRecords == 2
\* highest page asked for
MaxPage == 2

\* a u64 identifier is [hi, lo], the value hi * 2^32 + lo with lo < 2^31;
\* "as i32" keeps the low 32 bits
AsI32(id) == id.lo

\* GBSearch records of the remote service: two plain ones, the second with
\* no preview image, and one whose identifier is 2^32 + 1
GBSearch(hi, lo, name, images) ==
    [id |-> [hi |-> hi, lo |-> lo], name |-> name, model_name |-> "Mod",
     images |-> images]

RecordPool ==
    {GBSearch(0, 1, "n1", <<"i1">>), GBSearch(0, 2, "n2", <<>>),
     GBSearch(1, 1, "n3", <<"i3">>)}

\* _nRecordCount values of the responses
RecordCounts == {3, 5}

\* an entry of the records array of a response body: a GBSearch object, or
\* an object that does not decode as one
Entries ==
    {[ok |-> FALSE]} \cup {[ok |-> TRUE, rec |-> r] : r \in RecordPool}

\* what a search request gets: no body (the transport fails), or a body
Replies ==
    {[sent |-> FALSE]}
        \cup {[sent |-> TRUE, entries |-> e, record_count |-> c] :
                 e \in SeqsUpTo(Entries, MaxRecords), c \in RecordCounts}

\* no search has completed
NoReply == [sent |-> FALSE]

\* search_gb: Err when the transport fails (req.send().await?) or when the
\* body does not decode as GbSearchResults, which it does only when every
\* entry of the records array decodes; else Ok(res)
search_gb(reply) ==
    IF ~reply.sent THEN [ok |-> FALSE]
    ELSE IF \E k \in 1..Len(reply.entries) : ~reply.entries[k].ok
         THEN [ok |-> FALSE]
         ELSE [ok |-> TRUE,
               res |-> [records |-> [k \in 1..Len(reply.entries) |->
                                        reply.entries[k].rec],
                        record_count |-> reply.record_count]]

\* the GbPreviewData pushed for a record
GbPreviewData(i) ==
    [id |-> AsI32(i.id), image |-> "", item_type |-> i.model_name,
     name |-> i.name, updated |-> "Never",
     image_url |-> IF i.images = <<>> THEN "" ELSE Head(i.images),
     image_loaded |-> FALSE]

\* let mut items = vec![]; for i in res.records { items.push(..) }
PreviewItems(records) ==
    [k \in 1..Len(records) |-> GbPreviewData(records[k])]

\* a hand-off that puts the records of a later page before the held ones;
\* the paging property C10 tells it from ApplyResults
ApplyResults_prepend(held, page, res) ==
    IF page = 1 THEN [vec |-> TRUE, items |-> PreviewItems(res.records)]
    ELSE IF held.vec
         THEN [held EXCEPT !.items = PreviewItems(res.records) \o @]
         ELSE held

\* the held result model after the hand-off of a search result
ApplyResults(held, page, res) ==
    IF page = 1 THEN [vec |-> TRUE, items |-> PreviewItems(res.records)]
    ELSE IF held.vec
         THEN [held EXCEPT !.items = @ \o PreviewItems(res.records)]
         ELSE held

\* ui.set_n_results, called for page 1 only
ApplyCount(n, page, res) == IF page = 1 THEN res.record_count ELSE n

\* the get_preview_image tasks the hand-off spawns: none when the held model
\* was no VecModel (the closure returns before the loop)
SpawnedThumbs(held, page, res) ==
    IF page # 1 /\ ~held.vec THEN <<>> ELSE res.records

\* get_preview_image's hand-off: the first row with the record's id takes the
\* image
ApplyThumb(held, item) ==
    LET rows == {k \in 1..Len(held.items) : held.items[k].id = AsI32(item.id)}
    IN  IF ~held.vec \/ rows = {} THEN held
        ELSE LET k == CHOOSE x \in rows : \A y \in rows : x <= y
             IN  [held EXCEPT !.items[k].image = Head(item.images),
                              !.items[k].image_loaded = TRUE]

RemoveAt(s, i) == SubSeq(s, 1, i - 1) \o SubSeq(s, i + 1, Len(s))

\* on_search(search, page) on the UI thread: the indicator, then the task
OnSearch(search, page) ==
    /\ pc[1] = "running"
    /\ used[1].searches < MaxSearches
    /\ s_prog_vis' = TRUE
    /\ searches' = Append(searches, [search |-> search, page |-> page,
                                     seq |-> used[1].searches + 1])
    /\ used' = [used EXCEPT ![1].searches = @ + 1]
    /\ UNCHANGED <<pc, args, dmm_url, fwd, ui, chans, listener, url_chan,
                   h_pc, h_req, h_mod, evq, downloads, dl_chan, requests,
                   own_sent, s_results, n_results, thumbs, notices, s_log,
                   parseVars, fetchVars, detailVars, importVars>>

\* the spawned task: search_gb(..).await, then the hand-off or the notice
SearchDone(i) ==
    /\ i \in DOMAIN searches
    /\ \E r \in Replies :
        LET o == search_gb(r)
        IN  /\ evq' = [evq EXCEPT ![1] =
                   IF o.ok
                   THEN Append(@, Closure("search", [page |-> searches[i].page,
                                                     res |-> o.res,
                                                     seq |-> searches[i].seq]))
                   ELSE @]
            /\ notices' = [notices EXCEPT ![1] = IF o.ok THEN @ ELSE @ + 1]
            /\ s_log' = [s_log EXCEPT !.reply = r,
                                      !.failed = IF o.ok THEN @ ELSE @ + 1]
    /\ searches' = RemoveAt(searches, i)
    /\ UNCHANGED <<pc, args, dmm_url, fwd, ui, chans, listener, url_chan,
                   h_pc, h_req, h_mod, downloads, dl_chan, requests,
                   own_sent, used, s_results, n_results, s_prog_vis, thumbs,
                   parseVars, fetchVars, detailVars, importVars>>

\* get_preview_image: no preview, or get_image fails: nothing; else the hand-off
ThumbDone(i) ==
    /\ i \in DOMAIN thumbs
    /\ \E got \in BOOLEAN :
        evq' = [evq EXCEPT ![1] =
                   IF got /\ thumbs[i].images # <<>>
                   THEN Append(@, Closure("thumb", [item |-> thumbs[i]]))
                   ELSE @]
    /\ thumbs' = RemoveAt(thumbs, i)
    /\ UNCHANGED <<pc, args, dmm_url, fwd, ui, chans, listener, url_chan,
                   h_pc, h_req, h_mod, downloads, dl_chan, requests,
                   own_sent, used, s_results, n_results, s_prog_vis, searches,
                   notices, s_log, parseVars, fetchVars, detailVars, importVars>>

-----------------------------------------------------------------------------
(* The details window: on_list_files *)

\* on_list_files calls of the user
MaxLists == 2

\* the remote service's GbMod for an item id (_sName, _aFiles, _sText); the
\* text is a sequence of pieces, "<br>" being the markup replace looks for
DetailMods ==
    (1 :> [name |-> "m1", files |-> <<GbFile(1), GbFile(2)>>,
           text |-> <<"a", "<br>", "b">>])
    @@ (2 :> [name |-> "m2", files |-> <<GbFile(3)>>, text |-> <<"c">>])

\* no fetch_mod_info call has returned
NoInfo == [reply |-> [sent |-> FALSE], out |-> [ok |-> TRUE]]

\* the keys GbMod requires of a response body
GbModKeys == {"_sName", "_aFiles", "_sText", "_aSubmitter"}

\* the keys a body can hold: none of GbMod (an error page), all but the
\* submitter, or all
BodyShapes == {{}, GbModKeys \ {"_aSubmitter"}, GbModKeys}

\* a response body about mod_id holding the keys has
Body(mod_id, has) == [id |-> mod_id, has |-> has]

\* what the detail request for mod_id gets: no body (the transport fails)
\* or a body, whole only when the item is a mod the server knows
DetailReplies(mod_id) ==
    {[sent |-> FALSE]}
        \cup {[sent |-> TRUE, body |-> Body(mod_id, has)] :
                 has \in {h \in BodyShapes :
                            h = GbModKeys => mod_id \in DOMAIN DetailMods}}

\* sonic_rs::from_str::<GbMod>(&text): every key of GbMod is required
from_str_GbMod(text) ==
    IF GbModKeys \subseteq text.has
    THEN [ok |-> TRUE, module |-> DetailMods[text.id]]
    ELSE [ok |-> FALSE]

\* a decode failure that returns without the eprintln; the logging property
\* C25 tells it from fetch_mod_info
fetch_mod_info_quiet(reply) ==
    IF ~reply.sent THEN [ok |-> FALSE, err |-> "transport", stderr |-> <<>>]
    ELSE LET r == from_str_GbMod(reply.body)
         IN  IF r.ok THEN [ok |-> TRUE, module |-> r.module, stderr |-> <<>>]
             ELSE [ok |-> FALSE, err |-> "decode", stderr |-> <<>>]

\* fetch_mod_info: Err when the transport fails (req.send().await?); when
\* the body does not decode, eprintln!("{}", text) and then Err; else
\* Ok(module). stderr is what it has printed when it returns
fetch_mod_info(reply) ==
    IF ~reply.sent THEN [ok |-> FALSE, err |-> "transport", stderr |-> <<>>]
    ELSE LET r == from_str_GbMod(reply.body)
         IN  IF r.ok THEN [ok |-> TRUE, module |-> r.module, stderr |-> <<>>]
             ELSE [ok |-> FALSE, err |-> "decode",
                   stderr |-> <<reply.body>>]

\* module.text.replace("<br>", "\n")
ReplaceBr(text) ==
    [k \in 1..Len(text) |-> IF text[k] = "<br>" THEN "\n" ELSE text[k]]

\* for file in module.files { vecmod.push(file.into()) }
DetailFiles(module) ==
    [k \in 1..Len(module.files) |-> FromGbModDownload(module.files[k])]

\* the tasks on_list_files spawns for the window win: the image task when
\* the row has an image address and no image yet, then the detail task
DetailTasks(item, win) ==
    (IF ~item.image_loaded /\ item.image_url # ""
     THEN <<[kind |-> "image", win |-> win, url |-> item.image_url]>>
     ELSE <<>>)
    \o <<[kind |-> "info", win |-> win, item_id |-> item.id]>>

\* the hand-off of the detail task, deets_weak.upgrade_in_event_loop: with
\* the window alive set_files and set_description, else nothing
ApplyFiles(ds, win, module) ==
    IF ds[win].live
    THEN [ds EXCEPT ![win].files = DetailFiles(module),
                    ![win].description = ReplaceBr(module.text)]
    ELSE ds

\* the hand-off of the image task: the window's data takes the image, when
\* the window is alive
ApplyImage(ds, win, url) ==
    IF ds[win].live
    THEN [ds EXCEPT ![win].data.image = url, ![win].data.image_loaded = TRUE]
    ELSE ds

\* on_list_files(item) on the UI thread: a new details window showing the
\* row, and its tasks
OnListFiles(item) ==
    /\ pc[1] = "running"
    /\ used[1].lists < MaxLists
    /\ deets' = Append(deets, [data |-> item, files |-> <<>>,
                               description |-> <<>>, live |-> TRUE])
    /\ details' = details \o DetailTasks(item, Len(deets) + 1)
    /\ used' = [used EXCEPT ![1].lists = @ + 1]
    /\ UNCHANGED <<pc, args, dmm_url, fwd, ui, chans, listener, url_chan,
                   h_pc, h_req, h_mod, evq, downloads, dl_chan, requests,
                   own_sent, notices, parseVars, fetchVars, searchVars,
                   importVars>>

\* the user closes the details window win: the component is dropped and
\* deets_weak no longer upgrades
CloseDetails(win) ==
    /\ pc[1] = "running"
    /\ win \in DOMAIN deets
    /\ deets[win].live
    /\ deets' = [deets EXCEPT ![win].live = FALSE]
    /\ UNCHANGED <<pc, args, dmm_url, fwd, ui, chans, listener, url_chan,
                   h_pc, h_req, h_mod, evq, downloads, dl_chan, requests,
                   own_sent, used, notices, details, parseVars, fetchVars, searchVars,
                   importVars>>

\* the detail task: fetch_mod_info(item_id).await, then the hand-off; on Err
\* the task runs todo!(), a panic
InfoDone(i) ==
    /\ i \in DOMAIN details
    /\ details[i].kind = "info"
    /\ \E r \in DetailReplies(details[i].item_id) :
        LET o == fetch_mod_info(r)
        IN  /\ evq' = [evq EXCEPT ![1] =
                   IF o.ok
                   THEN Append(@, Closure("files", [win |-> details[i].win,
                                                    module |-> o.module]))
                   ELSE @]
            /\ s_log' = IF o.ok THEN [s_log EXCEPT !.info = [reply |-> r, out |-> o]]
                        ELSE [s_log EXCEPT !.failed = @ + 1,
                                           !.panics = @ + 1,
                                           !.info = [reply |-> r, out |-> o]]
    /\ details' = RemoveAt(details, i)
    /\ UNCHANGED <<pc, args, dmm_url, fwd, ui, chans, listener, url_chan,
                   h_pc, h_req, h_mod, downloads, dl_chan, requests,
                   own_sent, used, s_results, n_results, s_prog_vis,
                   searches, thumbs, notices, deets, parseVars, fetchVars,
                   importVars>>

\* the image task: get_image(url).await; Err is printed and the task
\* returns, else the hand-off
ImageDone(i) ==
    /\ i \in DOMAIN details
    /\ details[i].kind = "image"
    /\ \E got \in BOOLEAN :
        evq' = [evq EXCEPT ![1] =
                   IF got
                   THEN Append(@, Closure("image", [win |-> details[i].win,
                                                    url |-> details[i].url]))
                   ELSE @]
    /\ details' = RemoveAt(details, i)
    /\ UNCHANGED <<pc, args, dmm_url, fwd, ui, chans, listener, url_chan,
                   h_pc, h_req, h_mod, downloads, dl_chan, requests,
                   own_sent, used, notices, deets, parseVars, fetchVars, searchVars,
                   importVars>>

-----------------------------------------------------------------------------
(* First-run setup and the legacy-configuration importer: firstlaunch *)

\* on_import_dmm calls of the user
MaxImports == 1
\* changes of an import mark by the user
MaxToggles == 2
\* on_apply calls of the user
MaxApplies == 1

\* the characters of the loadout names, by byte value
CharRank ==
    ("/" :> 47) @@ ("_" :> 95) @@ ("a" :> 97) @@ ("b" :> 98) @@ ("c" :> 99)

\* the characters filenamify does not keep
Reserved == {"/"}

\* filenamify: a reserved character becomes the replacement "_"
filenamify(name) ==
    [k \in 1..Len(name) |-> IF name[k] \in Reserved THEN "_" ELSE name[k]]

\* the order of String: bytewise, a proper prefix first
RECURSIVE StrLess(_, _)
StrLess(a, b) ==
    IF b = <<>> THEN FALSE
    ELSE IF a = <<>> THEN TRUE
    ELSE IF Head(a) = Head(b) THEN StrLess(Tail(a), Tail(b))
    ELSE CharRank[Head(a)] < CharRank[Head(b)]

\* loadout names of the legacy tool: one filenamify changes, the name it
\* changes it to, and one apart
LoadoutNames == {<<"a", "/", "b">>, <<"a", "_", "b">>, <<"c">>}

DmmLoadoutMod(name, enabled) == [name |-> name, enabled |-> enabled]

\* the stored mods of a loadout
LoadoutMods(name) ==
    IF name = <<"a", "/", "b">>
    THEN <<DmmLoadoutMod("x", TRUE), DmmLoadoutMod("y", FALSE)>>
    ELSE IF name = <<"a", "_", "b">>
    THEN <<DmmLoadoutMod("z", TRUE)>>
    ELSE <<DmmLoadoutMod("y", FALSE), DmmLoadoutMod("x", TRUE)>>

\* directories are paths, sequences of components; the ones that exist and
\* the ones that hold DivaMegaMix.exe
ExistingDirs == {<<"D">>, <<"E">>}
ExeDirs == {<<"D">>}

\* ModsFolder values of a profile
ModsFolders == {None, Some(<<"D", "mods">>), Some(<<"E", "mods">>)}

\* DmmConfig values: Configs holds the profile "Project DIVA Mega Mix+"
\* (DmmPDMMConfig) or not
DmmConfigs ==
    {[profile |-> FALSE]}
        \cup {[profile |-> TRUE, mods_folder |-> f, current_loadout |-> c,
               loadouts |-> [n \in ns |-> LoadoutMods(n)]] :
                 f \in ModsFolders,
                 c \in {None} \cup {Some(n) : n \in LoadoutNames},
                 ns \in SUBSET LoadoutNames}

\* what the folder picker and the file system give an import: no folder or
\* no readable Config.json, a Config.json that is no DmmConfig, or one that is
ConfigFiles ==
    {[found |-> FALSE], [found |-> TRUE, ok |-> FALSE]}
        \cup {[found |-> TRUE, ok |-> TRUE, cfg |-> c] : c \in DmmConfigs}

\* a decode that takes a malformed file for a config with no profile; the
\* malformed-config property C17 tells it from from_str
from_str_lenient(file) ==
    IF file.ok THEN [ok |-> TRUE, cfg |-> file.cfg]
    ELSE [ok |-> TRUE, cfg |-> [profile |-> FALSE]]

\* sonic_rs::from_str::<DmmConfig>(cfgstr)
from_str(file) ==
    IF file.ok THEN [ok |-> TRUE, cfg |-> file.cfg] ELSE [ok |-> FALSE]

\* PathBuf::pop
Pop(path) == IF path = <<>> THEN path ELSE SubSeq(path, 1, Len(path) - 1)

\* the orders in which pdmm.loadouts.iter() may give the keys of the
\* HashMap: each key once, in any order
IterOrders(ns) ==
    {order \in [1..Cardinality(ns) -> ns] :
        \A j, k \in 1..Cardinality(ns) : j # k => order[j] # order[k]}

\* the Loadout pushed for each key, in iteration order: filenamify of the
\* key, marked for import
ListedLoadouts(order) ==
    [k \in 1..Len(order) |-> [name |-> filenamify(order[k]), import |-> TRUE]]

\* a list left in iteration order; the ordering property C22 tells it from
\* sort_by_key
sort_by_key_none(ls) == ls

\* loadouts.sort_by_key(|l| l.name.to_string()): a stable sort, an entry
\* goes after the entries with a smaller name and the earlier ones with its
\* name
sort_by_key(ls) ==
    LET place(k) ==
            Cardinality({j \in 1..Len(ls) : StrLess(ls[j].name, ls[k].name)})
            + Cardinality({j \in 1..k : ls[j].name = ls[k].name})
    IN  [p \in 1..Len(ls) |-> ls[CHOOSE k \in 1..Len(ls) : place(k) = p]]

\* the Loadout list of an import whose iteration gave the keys in order
PresentedLoadouts(pdmm, order) == sort_by_key(ListedLoadouts(order))

\* the closures an import hands off for the profile pdmm: set_diva_dir when
\* the parent of ModsFolder exists, then set_loadouts
ImportClosures(pdmm, order) ==
    (IF pdmm.mods_folder.some /\ Pop(pdmm.mods_folder.val) \in ExistingDirs
     THEN <<Closure("set_diva_dir", [dir |-> Pop(pdmm.mods_folder.val)])>>
     ELSE <<>>)
    \o <<Closure("set_loadouts",
                 [loadouts |-> PresentedLoadouts(pdmm, order)])>>

\* a conversion that leaves the game directory out of the path; the
\* conversion property C18 tells it from to_packmod
to_packmod_flat(self, mods_dir) ==
    [name |-> self.name, enabled |-> self.enabled, path |-> <<self.name>>]

\* DmmLoadoutMod::to_packmod
to_packmod(self, mods_dir) ==
    [name |-> self.name, enabled |-> self.enabled,
     path |-> Append(mods_dir, self.name)]

\* the mods pushed on a pack: to_packmod of each module with enabled set
RECURSIVE PackMods(_, _)
PackMods(modules, dir) ==
    IF modules = <<>> THEN <<>>
    ELSE (IF Head(modules).enabled
          THEN <<to_packmod(Head(modules), dir)>> ELSE <<>>)
         \o PackMods(Tail(modules), dir)

\* the names pushed on prio for a converted loadout: every member's name
\* when the loadout's name and the current loadout agree under filenamify
PrioOf(config, loadout) ==
    IF config.current_loadout.some
       /\ filenamify(loadout.name) = filenamify(config.current_loadout.val)
    THEN [k \in 1..Len(config.loadouts[loadout.name]) |->
             config.loadouts[loadout.name][k].name]
    ELSE <<>>

NoConversion == [packs |-> <<>>, prio |-> <<>>, panicked |-> FALSE]

\* on_apply's loop over the presented loadouts: each one marked for import
\* is looked up in the held config by its presented name (unwrap: a miss
\* panics), converted to a pack, and may add to prio
RECURSIVE Convert(_, _, _, _)
Convert(config, dir, ls, acc) ==
    IF ls = <<>> THEN acc
    ELSE LET loadout == Head(ls)
         IN  IF ~loadout.import THEN Convert(config, dir, Tail(ls), acc)
             ELSE IF loadout.name \notin DOMAIN config.loadouts
             THEN [acc EXCEPT !.panicked = TRUE]
             ELSE Convert(config, dir, Tail(ls),
                     [acc EXCEPT
                        !.packs = Append(@,
                            [name |-> filenamify(loadout.name),
                             mods |-> PackMods(config.loadouts[loadout.name],
                                               dir)]),
                        !.prio = @ \o PrioOf(config, loadout)])

\* what on_apply derives from DMM_CFG: nothing when no config is held or it
\* has no profile
Conversion(held, dir, ls) ==
    IF held.some /\ held.val.profile
    THEN Convert(held.val, dir, ls, NoConversion)
    ELSE NoConversion

\* on_apply's checks of the game directory field
DirValid(dir) == dir \in ExistingDirs /\ dir \in ExeDirs

\* the DIVA_CFG on_apply stores
AppliedConfig(cfg, w, prio) ==
    [cfg EXCEPT !.dark_mode = w.dark_mode, !.diva_dir = w.diva_dir,
                !.first_run = FALSE,
                !.priority = IF prio # <<>> THEN prio ELSE @]

NoApply == [done |-> FALSE]

\* on_import_dmm on the UI thread: the task is spawned
OnImportDmm ==
    /\ pc[1] = "running"
    /\ setup.shown
    /\ used[1].imports < MaxImports
    /\ i_tasks' = Append(i_tasks, [kind |-> "import", at |-> "pick"])
    /\ used' = [used EXCEPT ![1].imports = @ + 1]
    /\ UNCHANGED <<pc, args, dmm_url, fwd, ui, chans, listener, url_chan,
                   h_pc, h_req, h_mod, evq, downloads, dl_chan, requests,
                   own_sent, notices, parseVars, fetchVars, searchVars, detailVars,
                   dmm_cfg, diva_cfg, setup, i_log>>

\* the I/O steps of the importer, each made by the thread of the closure
\* that holds the call
IoSteps == {"exists", "read", "save", "write"}

Threads == {"ui", "task"}

Io(step, thread) == [step |-> step, thread |-> thread]

\* the import task, from the folder picker to the store in DMM_CFG: no file
\* ends it, a decode error opens the error window, a config is stored
ImportRead(i) ==
    /\ pc[1] = "running"
    /\ i \in DOMAIN i_tasks
    /\ i_tasks[i].kind = "import" /\ i_tasks[i].at = "pick"
    /\ \E file \in ConfigFiles :
        LET r == IF file.found THEN from_str(file) ELSE [ok |-> FALSE]
        IN  /\ dmm_cfg' = IF r.ok THEN Some(r.cfg) ELSE dmm_cfg
            /\ notices' = [notices EXCEPT ![1] =
                              IF file.found /\ ~r.ok THEN @ + 1 ELSE @]
            /\ i_tasks' = IF r.ok /\ r.cfg.profile
                          THEN [i_tasks EXCEPT ![i] =
                                   [kind |-> "import", at |-> "post",
                                    cfg |-> r.cfg]]
                          ELSE RemoveAt(i_tasks, i)
            /\ i_log' = [i_log EXCEPT
                  !.file = file,
                  !.io = @ \cup {Io("exists", "task")}
                           \cup (IF file.found THEN {Io("read", "task")}
                                 ELSE {})]
    /\ UNCHANGED <<pc, args, dmm_url, fwd, ui, chans, listener, url_chan,
                   h_pc, h_req, h_mod, evq, downloads, dl_chan, requests,
                   own_sent, used, parseVars, fetchVars, searchVars, detailVars,
                   diva_cfg, setup>>

\* the import task, the hand-offs for the profile of the config it read
ImportPost(i) ==
    /\ pc[1] = "running"
    /\ i \in DOMAIN i_tasks
    /\ i_tasks[i].kind = "import" /\ i_tasks[i].at = "post"
    /\ \E order \in IterOrders(DOMAIN i_tasks[i].cfg.loadouts) :
          evq' = [evq EXCEPT ![1] = @ \o ImportClosures(i_tasks[i].cfg, order)]
    /\ i_tasks' = RemoveAt(i_tasks, i)
    /\ UNCHANGED <<pc, args, dmm_url, fwd, ui, chans, listener, url_chan,
                   h_pc, h_req, h_mod, downloads, dl_chan, requests,
                   own_sent, used, notices, parseVars, fetchVars, searchVars,
                   detailVars, dmm_cfg, diva_cfg, setup, i_log>>

\* the user sets or clears the import mark of the k-th presented loadout
ToggleImport(k) ==
    /\ pc[1] = "running"
    /\ setup.shown
    /\ used[1].toggles < MaxToggles
    /\ k \in DOMAIN setup.loadouts
    /\ setup' = [setup EXCEPT !.loadouts[k].import = ~@]
    /\ used' = [used EXCEPT ![1].toggles = @ + 1]
    /\ UNCHANGED <<pc, args, dmm_url, fwd, ui, chans, listener, url_chan,
                   h_pc, h_req, h_mod, evq, downloads, dl_chan, requests,
                   own_sent, notices, parseVars, fetchVars, searchVars, detailVars,
                   dmm_cfg, diva_cfg, i_tasks, i_log>>

\* on_apply on the UI thread. A game directory that fails the checks opens
\* the error window. Else the chosen loadouts are converted from DMM_CFG (a
\* failed lookup panics in the callback, which ends the process), the save
\* task is spawned when a config is held, and DIVA_CFG is updated and its
\* write task spawned, or the error window opened when its lock is taken
\* (busy)
OnApply(busy) ==
    /\ pc[1] = "running"
    /\ setup.shown
    /\ used[1].applies < MaxApplies
    /\ used' = [used EXCEPT ![1].applies = @ + 1]
    /\ LET conv == Conversion(dmm_cfg, setup.diva_dir, setup.loadouts)
           valid == DirValid(setup.diva_dir)
           ran == valid /\ ~conv.panicked
           new == AppliedConfig(diva_cfg, setup, conv.prio)
       IN  /\ pc' = [pc EXCEPT ![1] =
                        IF valid /\ conv.panicked THEN "crashed" ELSE @]
           /\ notices' = [notices EXCEPT ![1] =
                             IF ~valid \/ (ran /\ busy) THEN @ + 1 ELSE @]
           /\ diva_cfg' = IF ran /\ ~busy THEN new ELSE diva_cfg
           /\ i_tasks' = i_tasks
                  \o (IF ran /\ dmm_cfg.some
                      THEN <<[kind |-> "save", packs |-> conv.packs]>>
                      ELSE <<>>)
                  \o (IF ran /\ ~busy
                      THEN <<[kind |-> "write", cfg |-> new]>> ELSE <<>>)
           /\ i_log' = [i_log EXCEPT !.apply =
                  IF ~valid THEN NoApply
                  ELSE [done |-> TRUE, held |-> dmm_cfg,
                        loadouts |-> setup.loadouts,
                        dir |-> setup.diva_dir, conv |-> conv,
                        stored |-> ran /\ ~busy,
                        priority |-> diva_cfg.priority],
                  !.io = @ \cup {Io("exists", "ui")}]
    /\ UNCHANGED <<args, dmm_url, fwd, ui, chans, listener, url_chan,
                   h_pc, h_req, h_mod, evq, downloads, dl_chan, requests,
                   own_sent, parseVars, fetchVars, searchVars, detailVars, dmm_cfg,
                   setup>>

\* the save task: save_modpack of each pack, an error window for each that
\* fails
SaveDone(i) ==
    /\ pc[1] = "running"
    /\ i \in DOMAIN i_tasks
    /\ i_tasks[i].kind = "save"
    /\ \E errs \in 0..Len(i_tasks[i].packs) :
        notices' = [notices EXCEPT ![1] = @ + errs]
    /\ i_tasks' = RemoveAt(i_tasks, i)
    /\ i_log' = [i_log EXCEPT !.io =
                    IF i_tasks[i].packs = <<>> THEN @
                    ELSE @ \cup {Io("save", "task")}]
    /\ UNCHANGED <<pc, args, dmm_url, fwd, ui, chans, listener, url_chan,
                   h_pc, h_req, h_mod, evq, downloads, dl_chan, requests,
                   own_sent, used, parseVars, fetchVars, searchVars, detailVars,
                   dmm_cfg, diva_cfg, setup>>

\* the write task: write_config, then the hand-off that hides the window,
\* or the error window
WriteDone(i) ==
    /\ pc[1] = "running"
    /\ i \in DOMAIN i_tasks
    /\ i_tasks[i].kind = "write"
    /\ \E ok \in BOOLEAN :
        /\ evq' = [evq EXCEPT ![1] =
                      IF ok THEN Append(@, Closure("hide", [win |-> "setup"]))
                      ELSE @]
        /\ notices' = [notices EXCEPT ![1] = IF ok THEN @ ELSE @ + 1]
    /\ i_tasks' = RemoveAt(i_tasks, i)
    /\ i_log' = [i_log EXCEPT !.io = @ \cup {Io("write", "task")}]
    /\ UNCHANGED <<pc, args, dmm_url, fwd, ui, chans, listener, url_chan,
                   h_pc, h_req, h_mod, downloads, dl_chan, requests,
                   own_sent, used, parseVars, fetchVars, searchVars, detailVars,
                   dmm_cfg, diva_cfg, setup>>

\* the user closes the setup window: the component is dropped and the weak
\* handles of the setup callbacks no longer upgrade
CloseSetup ==
    /\ pc[1] = "running"
    /\ setup.shown
    /\ setup' = [setup EXCEPT !.shown = FALSE]
    /\ UNCHANGED <<pc, args, dmm_url, fwd, ui, chans, listener, url_chan,
                   h_pc, h_req, h_mod, evq, downloads, dl_chan, requests,
                   own_sent, used, notices, parseVars, fetchVars, searchVars,
                   detailVars, dmm_cfg, diva_cfg, i_tasks, i_log>>

\* a hand-off that reaches a setup window already gone; the hand-off
\* property C23 tells it from ApplySetup
ApplySetup_closed(w, c) ==
    IF c.kind = "set_diva_dir" THEN [w EXCEPT !.diva_dir = c.arg.dir]
    ELSE IF c.kind = "set_loadouts" THEN [w EXCEPT !.loadouts = c.arg.loadouts]
    ELSE IF c.kind = "hide" THEN [w EXCEPT !.shown = FALSE]
    ELSE w

\* the setup window after the closure c has run: nothing when the window
\* is gone, which show() kept alive until it was hidden or closed
ApplySetup(w, c) ==
    IF ~w.shown THEN w
    ELSE IF c.kind = "set_diva_dir" THEN [w EXCEPT !.diva_dir = c.arg.dir]
    ELSE IF c.kind = "set_loadouts" THEN [w EXCEPT !.loadouts = c.arg.loadouts]
    ELSE IF c.kind = "hide" THEN [w EXCEPT !.shown = FALSE]
    ELSE w

-----------------------------------------------------------------------------
(* The UI event loop: runs the closures handed to it, one at a time, in the *)
(* order they were posted                                                   *)

\* the closure of on_download_file: push on the list when it is a VecModel
RunInteractive(d, file) ==
    IF d.vec THEN [d EXCEPT !.items = Append(@, file)] ELSE d

\* the closure of handle_dmm_oneclick, the list: downloads.push(download)
RunOneclickList(d, file) ==
    IF d.vec THEN [d EXCEPT !.items = Append(@, OneclickDownload(file))] ELSE d

\* the closure of handle_dmm_oneclick, the channel: try_send((cur_len, download))
RunOneclickSend(ch, d, file) ==
    IF d.vec THEN TrySend(ch, <<Len(d.items), OneclickDownload(file)>>) ELSE ch

\* the last window of p is closed: run_event_loop returns and main ends
Quit(p) ==
    /\ pc[p] = "running"
    /\ pc' = [pc EXCEPT ![p] = "exited"]
    /\ UNCHANGED <<args, dmm_url, fwd, ui, chans, listener, url_chan,
                   h_pc, h_req, h_mod, evq, downloads, dl_chan, requests,
                   own_sent, used, notices, parseVars, fetchVars, searchVars,
                   detailVars, importVars>>

EventLoop(p) ==
    /\ pc[p] = "running"
    /\ evq[p] # <<>>
    /\ LET c == Head(evq[p])
           k == c.kind
       IN  /\ downloads' = [downloads EXCEPT ![p] =
                  IF k = "interactive" THEN RunInteractive(@, c.arg.file)
                  ELSE IF k = "oneclick" THEN RunOneclickList(@, c.arg.file)
                  ELSE @]
           /\ dl_chan' = [dl_chan EXCEPT ![p] =
                  IF k = "oneclick"
                  THEN RunOneclickSend(@, downloads[p], c.arg.file)
                  ELSE @]
           /\ s_results' =
                  IF k = "search"
                  THEN ApplyResults(s_results, c.arg.page, c.arg.res)
                  ELSE IF k = "thumb" THEN ApplyThumb(s_results, c.arg.item)
                  ELSE s_results
           /\ n_results' =
                  IF k = "search"
                  THEN ApplyCount(n_results, c.arg.page, c.arg.res)
                  ELSE n_results
           /\ s_prog_vis' = IF k = "search" THEN FALSE ELSE s_prog_vis
           /\ thumbs' =
                  IF k = "search"
                  THEN thumbs \o SpawnedThumbs(s_results, c.arg.page, c.arg.res)
                  ELSE thumbs
           /\ s_log' =
                  IF k = "search" /\ c.arg.seq > s_log.shown
                  THEN [s_log EXCEPT !.shown = c.arg.seq]
                  ELSE s_log
           /\ deets' =
                  IF k = "files"
                  THEN ApplyFiles(deets, c.arg.win, c.arg.module)
                  ELSE IF k = "image"
                       THEN ApplyImage(deets, c.arg.win, c.arg.url)
                       ELSE deets
           /\ setup' = IF p = 1 THEN ApplySetup(setup, c) ELSE setup
    /\ evq' = [evq EXCEPT ![p] = Tail(@)]
    /\ UNCHANGED <<pc, args, dmm_url, fwd, ui, chans, listener, url_chan,
                   h_pc, h_req, h_mod, requests, own_sent, used, searches,
                   notices, details, parseVars, fetchVars, dmm_cfg, diva_cfg, i_tasks,
                   i_log>>

-----------------------------------------------------------------------------
(* Initial states *)

NoUse ==
    [urls |-> 0, clicks |-> 0, searches |-> 0, lists |-> 0, reports |-> <<>>,
     imports |-> 0, toggles |-> 0, applies |-> 0]

\* no fetch_mod_data call under study
FetchIdle ==
    /\ f_body = <<>>
    /\ f_chunks = <<>>
    /\ the_mod = None
    /\ f_pc = "idle"

\* no parse_dmm_url call under study
ParseIdle ==
    /\ p_in = <<>>
    /\ p_out = None
    /\ p_pc = "input"

\* the search state of a UI just built: no search made. The held model is
\* what the UI definition gives the property: an empty VecModel (vec) or the
\* empty default model, which is none
SearchStart(vecs) ==
    /\ s_results \in {[vec |-> v, items |-> <<>>] : v \in vecs}
    /\ n_results = 0
    /\ s_prog_vis = FALSE
    /\ searches = <<>>
    /\ thumbs = <<>>
    /\ s_log = [shown |-> 0, reply |-> NoReply, failed |-> 0, panics |-> 0,
                info |-> NoInfo]

\* no details window opened
DetailStart ==
    /\ deets = <<>>
    /\ details = <<>>

\* a legacy config an earlier import has loaded
EarlierConfig ==
    [profile |-> TRUE, mods_folder |-> None,
     current_loadout |-> Some(<<"c">>),
     loadouts |-> [n \in {<<"a", "/", "b">>, <<"c">>} |-> LoadoutMods(n)]]

\* the importer with DIVA_CFG as loaded (first_run set or not, a priority
\* order), the game directory get_diva_folder found (<<>> when none), the
\* setup window shown on a first run, and what an earlier import, if any,
\* has left: the held config and its presented loadouts
ImportStart(first_runs, dirs, olds, helds) ==
    /\ dmm_cfg \in helds
    /\ \E f \in first_runs, old \in olds :
          /\ diva_cfg = [dark_mode |-> FALSE, diva_dir |-> <<>>,
                         first_run |-> f, priority |-> old]
          /\ \E d \in dirs :
                setup \in
                    {[shown |-> f, dark_mode |-> FALSE, diva_dir |-> d,
                      loadouts |-> ls] :
                        ls \in IF dmm_cfg.some
                               THEN {PresentedLoadouts(dmm_cfg.val, order) :
                                       order \in IterOrders(
                                           DOMAIN dmm_cfg.val.loadouts)}
                               ELSE {<<>>}}
    /\ i_tasks = <<>>
    /\ i_log = [file |-> [found |-> FALSE], apply |-> NoApply, io |-> {}]

\* the hand-offs of the get_preview_image tasks of items, in order
RECURSIVE ApplyThumbs(_, _)
ApplyThumbs(held, items) ==
    IF items = <<>> THEN held
    ELSE ApplyThumbs(ApplyThumb(held, Head(items)), Tail(items))

\* the search state once the first page of a search is shown: the rows of
\* its records, with the thumbnails arrived (got) or not, no task pending
SearchShown ==
    /\ \E recs \in SeqsUpTo(RecordPool, MaxRecords) \ {<<>>},
          c \in RecordCounts, got \in BOOLEAN :
          LET res == [records |-> recs, record_count |-> c]
              held == ApplyResults([vec |-> TRUE, items |-> <<>>], 1, res)
              imgs == SelectSeq(recs, LAMBDA r : r.images # <<>>)
          IN  /\ s_results = ApplyThumbs(held, IF got THEN imgs ELSE <<>>)
              /\ n_results = ApplyCount(0, 1, res)
    /\ s_prog_vis = FALSE
    /\ searches = <<>>
    /\ thumbs = <<>>
    /\ s_log = [shown |-> 0, reply |-> NoReply, failed |-> 0, panics |-> 0,
                info |-> NoInfo]

\* the search state right after the first page of a search was handed
\* off, a page with a record that has a preview image and one that has
\* none: its rows shown, a get_preview_image task pending for each record
SearchHandedOff ==
    /\ \E recs \in {<<GBSearch(0, 1, "n1", <<"i1">>),
                       GBSearch(0, 2, "n2", <<>>)>>},
          c \in {3} :
          LET res == [records |-> recs, record_count |-> c]
              held == [vec |-> TRUE, items |-> <<>>]
          IN  /\ s_results = ApplyResults(held, 1, res)
              /\ n_results = ApplyCount(0, 1, res)
              /\ thumbs = SpawnedThumbs(held, 1, res)
    /\ s_prog_vis = FALSE
    /\ searches = <<>>
    /\ s_log = [shown |-> 0, reply |-> NoReply, failed |-> 0, panics |-> 0,
                info |-> NoInfo]

\* the importer once an import task has read EarlierConfig and stored it:
\* its hand-offs are still to come
ImportStored ==
    /\ dmm_cfg = Some(EarlierConfig)
    /\ diva_cfg = [dark_mode |-> FALSE, diva_dir |-> <<>>,
                   first_run |-> TRUE, priority |-> <<>>]
    /\ setup = [shown |-> TRUE, dark_mode |-> FALSE, diva_dir |-> <<>>,
                loadouts |-> <<>>]
    /\ i_tasks = <<[kind |-> "import", at |-> "post", cfg |-> EarlierConfig]>>
    /\ i_log = [file |-> [found |-> TRUE, ok |-> TRUE, cfg |-> EarlierConfig],
                apply |-> NoApply,
                io |-> {Io("exists", "task"), Io("read", "task")}]

\* processes at the entry of main, with the command lines as
ProcStart(as) ==
    /\ args = as
    /\ pc = [p \in Procs |-> "args"]
    /\ dmm_url = [p \in Procs |-> None]
    /\ fwd = [p \in Procs |-> "none"]
    /\ ui = [p \in Procs |-> FALSE]
    /\ chans = [p \in Procs |-> FALSE]
    /\ listener = [p \in Procs |-> FALSE]
    /\ url_chan = [p \in Procs |-> <<>>]
    /\ h_pc = [p \in Procs |-> "unreg"]
    /\ h_req = [p \in Procs |-> NoReq]
    /\ h_mod = [p \in Procs |-> NoMod]
    /\ evq = [p \in Procs |-> <<>>]
    /\ downloads = [p \in Procs |-> [vec |-> FALSE, items |-> <<>>]]
    /\ dl_chan = [p \in Procs |-> <<>>]
    /\ requests = [p \in Procs |-> <<>>]
    /\ own_sent = [p \in Procs |-> FALSE]
    /\ used = [p \in Procs |-> NoUse]
    /\ notices = [p \in Procs |-> 0]

\* process 1 was launched with no deep link and runs its event loop; process
\* 2 has not moved
ProcRunning ==
    /\ args = [p \in Procs |-> <<Exe>>]
    /\ pc = [p \in Procs |-> IF p = 1 THEN "running" ELSE "args"]
    /\ dmm_url = [p \in Procs |-> None]
    /\ fwd = [p \in Procs |-> "none"]
    /\ ui = [p \in Procs |-> p = 1]
    /\ chans = [p \in Procs |-> p = 1]
    /\ listener = [p \in Procs |-> p = 1]
    /\ url_chan = [p \in Procs |-> <<>>]
    /\ h_pc = [p \in Procs |-> IF p = 1 THEN "recv" ELSE "unreg"]
    /\ h_req = [p \in Procs |-> NoReq]
    /\ h_mod = [p \in Procs |-> NoMod]
    /\ evq = [p \in Procs |-> <<>>]
    /\ downloads = [p \in Procs |-> IF p = 1 THEN DownloadsModel
                                    ELSE [vec |-> FALSE, items |-> <<>>]]
    /\ dl_chan = [p \in Procs |-> <<>>]
    /\ requests = [p \in Procs |-> <<>>]
    /\ own_sent = [p \in Procs |-> FALSE]
    /\ used = [p \in Procs |-> NoUse]
    /\ notices = [p \in Procs |-> 0]

-----------------------------------------------------------------------------
(* Specifications *)

\* parse_dmm_url on every input of ParseInputs
InitParse ==
    /\ ParseInit
    /\ FetchIdle
    /\ ProcStart([p \in Procs |-> <<Exe>>])
    /\ SearchStart({FALSE})
    /\ DetailStart
    /\ ImportStart({FALSE}, {<<>>}, {<<>>}, {None})

NextParse == ParseCall

SpecParse == InitParse /\ [][NextParse]_vars

\* one fetch_mod_data call about to be made
FetchStart ==
    /\ f_body = <<>>
    /\ f_chunks = <<>>
    /\ the_mod = None
    /\ f_pc = "call"

InitFetch ==
    /\ ParseIdle
    /\ FetchStart
    /\ ProcStart([p \in Procs |-> <<Exe>>])
    /\ SearchStart({FALSE})
    /\ DetailStart
    /\ ImportStart({FALSE}, {<<>>}, {<<>>}, {None})

NextFetch ==
    \/ \E mod_id \in FetchIds, body \in Bodies :
          \E c \in CutSets(body) : FetchCall(mod_id, body, c)
    \/ WriteFunction
    \/ \E ok \in BOOLEAN : FetchReturn(ok)

SpecFetch == InitFetch /\ [][NextFetch]_vars

\* the download coordinator of the running instance: urls forwarded to it,
\* the one-click handler, the user's downloads, the event loop
Init ==
    /\ ParseIdle
    /\ FetchIdle
    /\ ProcRunning
    /\ SearchStart({FALSE})
    /\ DetailStart
    /\ ImportStart({FALSE}, {<<>>}, {<<>>}, {None})

Next ==
    \/ \E u \in DeepLinks \cup {NoUrl} : ForwardedUrl(1, u)
    \/ HandlerRecv(1)
    \/ HandlerFetch(1)
    \/ HandlerFind(1)
    \/ \E r \in DetailRows : OnDownloadFile(1, r.file, r.file_row)
    \/ EventLoop(1)

Spec == Init /\ [][Next]_vars

\* two processes launched, each with a command line of ArgChoices
InitLaunch ==
    /\ ParseIdle
    /\ FetchIdle
    /\ \E as \in [Procs -> ArgChoices] : ProcStart(as)
    /\ SearchStart({FALSE})
    /\ DetailStart
    /\ ImportStart({FALSE}, {<<>>}, {<<>>}, {None})

NextLaunch ==
    \E p \in Procs :
        \/ MainArgs(p)
        \/ MainForward(p)
        \/ MainInit(p)
        \/ MainListen(p)
        \/ MainGbInit(p)
        \/ MainSendUrl(p)
        \/ HandlerRecv(p)
        \/ HandlerFetch(p)
        \/ HandlerFind(p)
        \/ EventLoop(p)

SpecLaunch == InitLaunch /\ [][NextLaunch]_vars

\* the download coordinator with the transport reporting progress
NextProgress ==
    \/ ForwardedUrl(1, U1)
    \/ HandlerRecv(1)
    \/ HandlerFetch(1)
    \/ HandlerFind(1)
    \/ \E r \in DetailRows : OnDownloadFile(1, r.file, r.file_row)
    \/ EventLoop(1)
    \/ \E k \in 1..(MaxUrls + MaxClicks), f \in Fractions :
          ReportProgress(1, k, f)

SpecProgress == Init /\ [][NextProgress]_vars

\* the search of the running instance, from either initial result model
SearchTerms == {"miku"}

NextSearch ==
    \/ \E t \in SearchTerms, page \in 1..MaxPage : OnSearch(t, page)
    \/ \E i \in DOMAIN searches : SearchDone(i)
    \/ \E i \in DOMAIN thumbs : ThumbDone(i)
    \/ EventLoop(1)

InitSearch ==
    /\ ParseIdle
    /\ FetchIdle
    /\ ProcRunning
    /\ SearchStart(BOOLEAN)
    /\ DetailStart
    /\ ImportStart({FALSE}, {<<>>}, {<<>>}, {None})

SpecSearch == InitSearch /\ [][NextSearch]_vars

\* the details windows of the running instance, opened from the rows a
\* search has shown
InitDetail ==
    /\ ParseIdle
    /\ FetchIdle
    /\ ProcRunning
    /\ SearchShown
    /\ DetailStart
    /\ ImportStart({FALSE}, {<<>>}, {<<>>}, {None})

NextDetail ==
    \/ \E k \in DOMAIN s_results.items : OnListFiles(s_results.items[k])
    \/ \E i \in DOMAIN details : InfoDone(i)
    \/ \E i \in DOMAIN details : ImageDone(i)
    \/ \E win \in DOMAIN deets : CloseDetails(win)
    \/ EventLoop(1)

SpecDetail == InitDetail /\ [][NextDetail]_vars

\* the first-run setup of the running instance: imports, the import marks,
\* apply and the tasks they spawn
InitImport ==
    /\ ParseIdle
    /\ FetchIdle
    /\ ProcRunning
    /\ SearchStart({FALSE})
    /\ DetailStart
    /\ ImportStart({TRUE}, {<<>>, <<"D">>}, {<<>>, <<"o">>},
                   {None, Some(EarlierConfig)})

NextImport ==
    \/ OnImportDmm
    \/ \E i \in DOMAIN i_tasks : ImportRead(i)
    \/ \E i \in DOMAIN i_tasks : ImportPost(i)
    \/ \E k \in DOMAIN setup.loadouts : ToggleImport(k)
    \/ \E busy \in BOOLEAN : OnApply(busy)
    \/ \E i \in DOMAIN i_tasks : SaveDone(i)
    \/ \E i \in DOMAIN i_tasks : WriteDone(i)
    \/ EventLoop(1)

SpecImport == InitImport /\ [][NextImport]_vars

\* the background tasks of the running instance and their hand-offs, with
\* the windows they hand off to closed at any moment
InitClose ==
    /\ ParseIdle
    /\ FetchIdle
    /\ ProcRunning
    /\ SearchHandedOff
    /\ DetailStart
    /\ ImportStored

NextClose ==
    \/ ForwardedUrl(1, U1)
    \/ HandlerRecv(1)
    \/ HandlerFetch(1)
    \/ HandlerFind(1)
    \/ \E i \in DOMAIN thumbs : ThumbDone(i)
    \/ \E i \in DOMAIN i_tasks : ImportPost(i)
    \/ CloseSetup
    \/ Quit(1)
    \/ EventLoop(1)

SpecClose == InitClose /\ [][NextClose]_vars

-----------------------------------------------------------------------------
(* Properties: parse_dmm_url (SpecParse) *)

\* C2: for every string of the documented grammar parse_dmm_url returns
\* exactly the three fields as written, and for every other string it
\* returns no match.
C2_ParseExact ==
    p_pc = "done" =>
        IF IsGrammar(p_in) THEN p_out = Some(Written(p_in)) ELSE p_out = None

\* C3: whenever parse_dmm_url returns a match, the returned itemtype holds
\* no comma.
C3_ItemtypeNoComma ==
    (p_pc = "done" /\ p_out.some) =>
        \A i \in 1..Len(p_out.val.itemtype) : p_out.val.itemtype[i] # ","

\* r holds a text of the grammar with other characters before or after it
ExtraAround(r) ==
    /\ ~GrammarSuffix(r)
    /\ \E a \in 1..Len(r) : \E b \in a..Len(r) : GrammarSuffix(SubSeq(r, a, b))

\* C4: a url with the known prefix whose remainder has extra characters
\* before the file id or after the item id yields no match.
C4_Anchored ==
    (p_pc = "done" /\ StartsWith(p_in, DMM_PREFIX) /\ ExtraAround(Remainder(p_in)))
        => p_out = None

-----------------------------------------------------------------------------
(* Properties: the download coordinator (Spec) *)

Ids(items) == [i \in 1..Len(items) |-> items[i].id]

ChanIds(ch) == [i \in 1..Len(ch) |-> ch[i][2].id]

\* C1: the download list never holds two tasks with the same file
\* identifier.
C1_OneTaskPerFile ==
    \A p \in Procs :
        \A i, j \in 1..Len(downloads[p].items) :
            downloads[p].items[i].id = downloads[p].items[j].id => i = j

\* C9: once every hand-off has run, the order of the download list and the
\* order of the pairs on the outbound channel both equal the order in which
\* the enqueues were requested.
C9_EnqueueOrder ==
    \A p \in Procs :
        (evq[p] = <<>> /\ Len(requests[p]) <= CHANNEL_CAP) =>
            /\ Ids(downloads[p].items) = requests[p]
            /\ ChanIds(dl_chan[p]) = requests[p]

\* the files of the fetched detail whose decimal id is the request's file id
Matching(p) ==
    {i \in 1..Len(h_mod[p].files) :
        to_string(h_mod[p].files[i].id) = h_req[p].file_id}

\* the handler of p leaves the step that looks the file up
FindStep(p) == h_pc[p] = "find" /\ h_pc'[p] # "find"

\* the event loop of p runs a closure of kind k
RunStep(p, k) ==
    /\ evq[p] # <<>>
    /\ Head(evq[p]).kind = k
    /\ evq'[p] = Tail(evq[p])

\* C5: the one-click handler hands off a download only for a file of the
\* fetched detail whose identifier in decimal form equals the request's file
\* identifier, and that hand-off pushes and sends that file's task; with no
\* such file nothing is handed off, pushed or sent, the url is not put back
\* on the channel and the handler waits for the next url.
C5_OneclickResolution ==
    [][\A p \in Procs :
          /\ FindStep(p) =>
                /\ h_pc'[p] = "recv"
                /\ url_chan'[p] = url_chan[p]
                /\ downloads' = downloads
                /\ dl_chan' = dl_chan
                /\ IF Matching(p) = {}
                   THEN evq'[p] = evq[p]
                   ELSE \E i \in Matching(p) :
                           evq'[p] = Append(evq[p],
                               Closure("oneclick", [file |-> h_mod[p].files[i]]))
          /\ RunStep(p, "oneclick") =>
                LET f == Head(evq[p]).arg.file
                IN  /\ downloads'[p].items =
                           Append(downloads[p].items, OneclickDownload(f))
                    /\ dl_chan'[p] =
                           TrySend(dl_chan[p], <<Len(downloads[p].items),
                                                 OneclickDownload(f)>>)
      ]_vars

\* the url for file 2 of item 1 was resolved, pushed and sent, and then the
\* url for a file item 1 does not hold was looked up and left no trace
C5_Witness ==
    /\ used[1].urls = 2 /\ used[1].clicks = 0
    /\ h_pc[1] = "recv"
    /\ h_req[1].file_id = <<"3">>
    /\ h_mod[1] = ServerMods[<<"1">>]
    /\ url_chan[1] = <<>>
    /\ evq[1] = <<>>
    /\ downloads[1].items = <<OneclickDownload(GbFile(2))>>
    /\ dl_chan[1] = << <<0, OneclickDownload(GbFile(2))>> >>

-----------------------------------------------------------------------------
(* Properties: two processes launched (SpecLaunch) *)

\* p has set out to serve urls itself
Primary(p) == pc[p] \in {"init", "listen", "gb_init", "send_url", "running"}

\* C6: a process whose forwarding succeeded has exited, and it has created
\* no UI, no channels and no listener, has no handler, has sent no url to a
\* local handler and has queued no download.
C6_ForwardedExits ==
    \A p \in Procs :
        fwd[p] = "ok" =>
            /\ pc[p] = "exited"
            /\ ~ui[p] /\ ~chans[p] /\ ~listener[p]
            /\ h_pc[p] = "unreg"
            /\ ~own_sent[p]
            /\ url_chan[p] = <<>> /\ evq[p] = <<>> /\ dl_chan[p] = <<>>
            /\ downloads[p].items = <<>> /\ requests[p] = <<>>

\* a process has forwarded its deep link and exited, and the instance that
\* took the url has queued the download
C6_Witness ==
    \E p, q \in Procs :
        /\ fwd[p] = "ok" /\ pc[p] = "exited"
        /\ pc[q] = "running"
        /\ downloads[q].items # <<>>

\* C7: a process whose forwarding failed and that has reached its event loop
\* has delivered its url on the inbound channel of its own handler.
C7_OwnUrlDelivered ==
    \A p \in Procs :
        (fwd[p] = "err" /\ pc[p] = "running") => own_sent[p]

\* C8: single-instance ownership is best effort. A process with a deep link
\* serves urls itself only after its forwarding failed, a process whose
\* forwarding failed never gives up, whether or not its listener starts, and
\* at most one listener is up; nothing keeps two such processes from both
\* being primary (C8_Witness).
C8_BestEffort ==
    /\ \A p \in Procs :
          /\ (Primary(p) /\ dmm_url[p].some) => fwd[p] = "err"
          /\ fwd[p] = "err" => Primary(p)
    /\ \A p, q \in Procs : (listener[p] /\ listener[q]) => p = q

\* both processes were launched with a deep link, both forwardings failed
\* and both processes run their event loop with their own url delivered
C8_Witness ==
    \A p \in Procs :
        /\ fwd[p] = "err"
        /\ pc[p] = "running"
        /\ own_sent[p]

-----------------------------------------------------------------------------
(* Properties: search (SpecSearch) *)

\* the event loop runs the hand-off of a search result
SearchStep == RunStep(1, "search")

\* C10 as stated: a result for page 1 replaces the held set with the
\* server's records in server order and sets the total count; a result for a
\* later page leaves the held items in place and appends the new ones.
C10_PageAppends ==
    [][SearchStep =>
          LET c == Head(evq[1]).arg
              new == PreviewItems(c.res.records)
          IN  IF c.page = 1
              THEN /\ s_results'.items = new
                   /\ n_results' = c.res.record_count
              ELSE s_results'.items = s_results.items \o new
      ]_vars

\* C10, amended: a result for page 1 replaces the held set with the server's
\* records in server order and sets the total count; a result for a later
\* page leaves the count alone and, when the held model is a list model,
\* leaves the held items in place and appends the new ones in server order,
\* repeated identifiers included; when the held model is no list model the
\* result is dropped and the held set stays as it was.
C10_PageAppendsToList ==
    [][SearchStep =>
          LET c == Head(evq[1]).arg
              new == PreviewItems(c.res.records)
          IN  IF c.page = 1
              THEN /\ s_results' = [vec |-> TRUE, items |-> new]
                   /\ n_results' = c.res.record_count
              ELSE /\ n_results' = n_results
                   /\ IF s_results.vec
                      THEN s_results' = [vec |-> TRUE,
                                         items |-> s_results.items \o new]
                      ELSE s_results' = s_results
      ]_vars

\* a later page was appended to a held page, and an identifier repeats
C10_Witness ==
    /\ s_results.vec
    /\ Len(s_results.items) > MaxRecords
    /\ \E i, j \in 1..Len(s_results.items) :
          i < j /\ s_results.items[i].id = s_results.items[j].id
    /\ n_results \in RecordCounts

\* the search tasks were issued one after the other: the one with the higher
\* number supersedes the one with the lower
Superseded(c) == c.arg.seq < s_log.shown

\* C11: the hand-off of a search result that arrives after the result of a
\* newer search is a no-op: the held result set and the total count stay as
\* the newer search left them.
C11_SupersededNoOp ==
    [][(SearchStep /\ Superseded(Head(evq[1]))) =>
          /\ s_results' = s_results
          /\ n_results' = n_results
      ]_vars

\* the event loop runs the hand-off of a thumbnail
ThumbStep == RunStep(1, "thumb")

\* row b is row a with, at most, another image and image_loaded flag
SameButImage(a, b) ==
    b = [a EXCEPT !.image = b.image, !.image_loaded = b.image_loaded]

\* the row presents the record item: it is the row built for it, with or
\* without its image
RowOfRecord(row, item) == SameButImage(GbPreviewData(item), row)

\* C12: the hand-off of a thumbnail for the record of id X changes only the
\* image and the image_loaded flag of a held row of that record; every row
\* of a record with another id, and the length and the order of the held
\* set, stay as they were, and with no row of id X the held set is unchanged.
C12_ThumbOwnRow ==
    [][ThumbStep =>
          LET item == Head(evq[1]).arg.item
          IN  /\ s_results'.vec = s_results.vec
              /\ Len(s_results'.items) = Len(s_results.items)
              /\ \A k \in 1..Len(s_results.items) :
                    IF RowOfRecord(s_results.items[k], item)
                    THEN SameButImage(s_results.items[k], s_results'.items[k])
                    ELSE s_results'.items[k] = s_results.items[k]
      ]_vars

\* a search task completes
SearchEnds == Len(searches') < Len(searches)

\* a thumbnail task completes
ThumbEnds == Len(thumbs') < Len(thumbs)

\* the records of the entries of a body that decode, in the body's order
WellFormed(reply) ==
    LET good == SelectSeq(reply.entries, LAMBDA e : e.ok)
    IN  [k \in 1..Len(good) |-> good[k].rec]

\* C13: a search whose response body holds a malformed record still hands
\* off the remaining records of the body; a thumbnail task that ends, with
\* or without an image, leaves the held set and every other thumbnail task
\* as they were.
C13_PartialFailureIsolated ==
    [][/\ (SearchEnds /\ s_log'.reply.sent /\ WellFormed(s_log'.reply) # <<>>)
            => /\ Len(evq'[1]) = Len(evq[1]) + 1
               /\ evq'[1][Len(evq'[1])].kind = "search"
               /\ evq'[1][Len(evq'[1])].arg.res.records
                      = WellFormed(s_log'.reply)
       /\ ThumbEnds
            => /\ s_results' = s_results
               /\ \E i \in DOMAIN thumbs : thumbs' = RemoveAt(thumbs, i)
      ]_vars

\* C14: no error is fatal to the one-click handler. Whatever a resolution
\* ended in, the handler task of every process is alive (waiting on url_rx
\* or working on a request), and a url sitting in the inbound channel has a
\* handler that will receive it.
C14_HandlerSurvives ==
    \A p \in Procs :
        /\ h_pc[p] # "panicked"
        /\ url_chan[p] # <<>> => h_pc[p] \in {"recv", "fetch", "find"}

\* C15: every request that ended in a NetworkError or a DecodeError, of a
\* search or of a detail fetch, has opened a notice, and no task that issued
\* a request was ended by a panic.
C15_ErrorsBecomeNotices ==
    /\ s_log.panics = 0
    /\ notices[1] = s_log.failed

DecodeFailStep ==
    /\ \E i \in DOMAIN i_tasks :
          /\ i_tasks[i].kind = "import" /\ i_tasks[i].at = "pick"
          /\ i_tasks' = RemoveAt(i_tasks, i)
    /\ i_log'.file.found /\ ~i_log'.file.ok

\* C17: a Config.json that is not valid JSON for the schema ends the import
\* with one error window and nothing else: the held legacy config, the
\* setup window (the presented loadouts and the game directory field), the
\* application configuration and the hand-offs pending are as before.
C17_MalformedLeavesState ==
    [][DecodeFailStep =>
          /\ notices'[1] = notices[1] + 1
          /\ dmm_cfg' = dmm_cfg
          /\ setup' = setup
          /\ diva_cfg' = diva_cfg
          /\ evq' = evq
          /\ pc' = pc
      ]_vars

\* a malformed Config.json was read after an earlier import: its config is
\* still held and its loadouts still presented
C17_Witness ==
    /\ i_log.file.found /\ ~i_log.file.ok
    /\ notices[1] = 1
    /\ i_tasks = <<>>
    /\ dmm_cfg = Some(EarlierConfig)
    /\ \E order \in IterOrders(DOMAIN EarlierConfig.loadouts) :
          setup.loadouts = PresentedLoadouts(EarlierConfig, order)

\* the presented loadouts an apply found marked for import
Chosen(a) == SelectSeq(a.loadouts, LAMBDA l : l.import)

\* an apply that converted its chosen loadouts from a held profile
Converted(a) ==
    /\ a.done
    /\ a.held.some /\ a.held.val.profile
    /\ ~a.conv.panicked

\* on_apply runs
ApplyStep == used'[1].applies = used[1].applies + 1

Names(stored) == [k \in 1..Len(stored) |-> stored[k].name]

\* the chosen loadouts of an apply whose name agrees with the profile's
\* current loadout under filenamify
Matches(a) ==
    IF a.held.val.current_loadout.some
    THEN SelectSeq(Chosen(a),
             LAMBDA l : filenamify(l.name)
                          = filenamify(a.held.val.current_loadout.val))
    ELSE <<>>

\* C20: at most one chosen loadout supplies the priority list. The list an
\* apply derives is empty or the member names of one loadout of the held
\* config, and so is what it stores in the configuration unless it leaves
\* the old order.
C20_OneLoadoutSuppliesPriority ==
    LET a == i_log.apply
    IN  Converted(a) =>
          /\ \/ a.conv.prio = <<>>
             \/ \E n \in DOMAIN a.held.val.loadouts :
                   a.conv.prio = Names(a.held.val.loadouts[n])
          /\ a.stored =>
                \/ diva_cfg.priority = a.priority
                \/ \E n \in DOMAIN a.held.val.loadouts :
                      diva_cfg.priority = Names(a.held.val.loadouts[n])

\* C19: priority derivation. When exactly the chosen loadouts that match the
\* current loadout are considered: with a match the derived list is the
\* member names of the matching loadout in the stored order and, the list
\* being stored, it is the configuration's priority; with no match the
\* derived list is empty and the configuration's priority is the old one.
C19_PriorityDerivation ==
    LET a == i_log.apply
    IN  Converted(a) =>
          IF Matches(a) # <<>>
          THEN LET names == Names(a.held.val.loadouts[Matches(a)[1].name])
               IN  /\ a.conv.prio = names
                   /\ (a.stored /\ names # <<>>) => diva_cfg.priority = names
          ELSE /\ a.conv.prio = <<>>
               /\ diva_cfg.priority = a.priority

\* the ways to name, for each presented entry of an apply, the loadout of
\* the held config it was made from: one key per entry, no key twice, the
\* entry's name the filenamify form of its key
Origins(a) ==
    LET ns == DOMAIN a.held.val.loadouts
    IN  {keys \in [1..Len(a.loadouts) -> ns] :
            /\ \A j, k \in 1..Len(a.loadouts) : j # k => keys[j] # keys[k]
            /\ \A k \in 1..Len(a.loadouts) :
                  a.loadouts[k].name = filenamify(keys[k])}

\* the place among the packs of the k-th presented entry, when chosen
PackIndex(a, k) == Cardinality({j \in 1..k : a.loadouts[j].import})

\* C21: loadouts whose names collide under filenamify are not conflated. When
\* an apply converts a presented list made from the held config, with one
\* entry per loadout, no two entries are the same, and the entries can be
\* matched with the loadouts they were made from so that the package of each
\* chosen entry holds the enabled mods of its own loadout.
C21_NotConflated ==
    LET a == i_log.apply
    IN  (Converted(a) /\ Origins(a) # {}) =>
          /\ \A j, k \in 1..Len(a.loadouts) :
                j # k => a.loadouts[j] # a.loadouts[k]
          /\ \E keys \in Origins(a) :
                \A k \in 1..Len(a.loadouts) :
                    a.loadouts[k].import =>
                        LET own == SelectSeq(a.held.val.loadouts[keys[k]],
                                             LAMBDA m : m.enabled)
                            mods == a.conv.packs[PackIndex(a, k)].mods
                        IN  /\ Len(mods) = Len(own)
                            /\ \A j \in 1..Len(own) : mods[j].name = own[j].name

\* an import task hands off the loadout list of the profile pdmm
ListPosted(pdmm) ==
    /\ \E i \in DOMAIN i_tasks :
          /\ i_tasks[i].kind = "import" /\ i_tasks[i].at = "post"
          /\ i_tasks[i].cfg = pdmm
          /\ i_tasks' = RemoveAt(i_tasks, i)
    /\ Len(evq'[1]) > Len(evq[1])
    /\ evq'[1][Len(evq'[1])].kind = "set_loadouts"

\* C22: the loadout list an import hands off has one entry per loadout of
\* the profile, marked for import: each filenamify form as often as there
\* are loadouts with it, and in ascending order of that form. No other list
\* has these properties, so the list is the same for every iteration order
\* of the map.
C22_ListSorted ==
    [][\A pdmm \in DmmConfigs :
          (pdmm.profile /\ ListPosted(pdmm)) =>
              LET ls == evq'[1][Len(evq'[1])].arg.loadouts
                  ns == DOMAIN pdmm.loadouts
              IN  /\ Len(ls) = Cardinality(ns)
                  /\ \A k \in 1..Len(ls) : ls[k].import
                  /\ \A n \in ns :
                        Cardinality({k \in 1..Len(ls) :
                                        ls[k].name = filenamify(n)})
                        = Cardinality({m \in ns : filenamify(m) = filenamify(n)})
                  /\ \A j, k \in 1..Len(ls) :
                        j < k => ~StrLess(ls[k].name, ls[j].name)
      ]_vars

\* a list of three loadouts, two of them with one filenamify form, waits for
\* the event loop
C22_Witness ==
    \E k \in DOMAIN evq[1] :
        /\ evq[1][k].kind = "set_loadouts"
        /\ Len(evq[1][k].arg.loadouts) = 3
        /\ evq[1][k].arg.loadouts[1].name = evq[1][k].arg.loadouts[2].name
        /\ evq[1][k].arg.loadouts[3].name = <<"c">>

-----------------------------------------------------------------------------
(* C23, checked under SpecClose *)

\* what the windows show
UIState == <<downloads, s_results, n_results, s_prog_vis, deets, setup>>

\* the event loop runs the closure at the head of the queue of process 1
LoopStep == pc[1] = "running" /\ evq[1] # <<>> /\ evq'[1] = Tail(evq[1])

\* the closure at the head of the queue was handed off through the weak
\* handle of the setup window
ForSetup == evq[1] # <<>> /\ Head(evq[1]).kind \in {"set_diva_dir", "set_loadouts", "hide"}

-----------------------------------------------------------------------------
(* C24, checked under SpecImport *)

\* C24: every file I/O step of the importer (existence checks, the read of
\* Config.json, the save of the packages, the write of the config) is made
\* by a background task, never by the thread that owns the UI
C24_NoIoOnUiThread ==
    /\ i_log.io \subseteq [step : IoSteps, thread : Threads]
    /\ \A e \in i_log.io : e.thread = "task"

-----------------------------------------------------------------------------
(* C25, checked under SpecDetail *)


\* C25: a call of fetch_mod_info whose response body lacks a key of GbMod
\* returns the decode error with the body, whole, printed before it, and no
\* detail at all; a body is printed in no other case
C25_DecodeFailureLogged ==
    \A i \in {s_log.info} :
        /\ (i.reply.sent /\ ~(GbModKeys \subseteq i.reply.body.has)
               => /\ ~i.out.ok
                  /\ i.out.err = "decode"
                  /\ i.out.stderr = <<i.reply.body>>
                  /\ DOMAIN i.out = {"ok", "err", "stderr"})
        /\ (i.out.ok /\ i # NoInfo
               => /\ i.out.module = DetailMods[i.reply.body.id]
                  /\ i.out.stderr = <<>>)
        /\ (~i.reply.sent /\ i # NoInfo => i.out.stderr = <<>>)

\* the server answered with a body that has the name, the files and the text
\* but no submitter
C25_Witness ==
    /\ s_log.info.reply.sent
    /\ s_log.info.reply.body.has = GbModKeys \ {"_aSubmitter"}
    /\ ~s_log.info.out.ok

-----------------------------------------------------------------------------
(* C26 and C27, checked under Spec *)

\* C26: once every hand-off has run, the position of every pair sent on the
\* outbound download channel is the index, counted from 0, of that pair's
\* task in the download list
C26_PositionIsIndex ==
    \A p \in Procs :
        evq[p] = <<>> =>
            \A k \in 1..Len(dl_chan[p]) :
                LET pos == dl_chan[p][k][1]
                    task == dl_chan[p][k][2]
                IN  /\ pos + 1 \in 1..Len(downloads[p].items)
                    /\ downloads[p].items[pos + 1].id = task.id

\* how many entries of the sequence of identifiers ids are id
Times(ids, id) == Cardinality({k \in 1..Len(ids) : ids[k] = id})

\* C27: in every state a task is in the download list as many times as it
\* was sent on the outbound download channel: none is listed and not sent,
\* none is sent and not listed
C27_ListedIffDelivered ==
    \A p \in Procs :
        \A id \in {downloads[p].items[k].id : k \in 1..Len(downloads[p].items)}
                     \cup {dl_chan[p][k][2].id : k \in 1..Len(dl_chan[p])} :
            Times(Ids(downloads[p].items), id) = Times(ChanIds(dl_chan[p]), id)

-----------------------------------------------------------------------------
(* C28, checked under SpecSearch *)

\* C28: once every search task has ended and every hand-off of a search has
\* run, so that nothing a search request started is still to come, the
\* search-progress indicator is hidden
C28_IndicatorHidden ==
    (/\ searches = <<>>
     /\ \A k \in 1..Len(evq[1]) : evq[1][k].kind # "search")
        => ~s_prog_vis

-----------------------------------------------------------------------------
(* C29, checked under SpecImport *)

\* C29: when apply runs on a presented list that was made from the held
\* config, every entry marked for import is found in it and converted, one
\* package each: the lookup does not panic and the process does not crash
C29_LookupNeverFails ==
    LET a == i_log.apply
    IN  (/\ a.done
         /\ a.held.some /\ a.held.val.profile
         /\ Origins(a) # {})
           => /\ ~a.conv.panicked
              /\ Len(a.conv.packs) = Len(Chosen(a))
              /\ pc[1] # "crashed"

-----------------------------------------------------------------------------
(* C30, checked under SpecImport *)

\* the list ls is one the import task makes from the config held: the names
\* of its entries, in order, are those of the list made from the profile
\* under some iteration order of its loadouts
MadeFrom(ls, held) ==
    /\ held.some /\ held.val.profile
    /\ \E order \in IterOrders(DOMAIN held.val.loadouts) :
          Names(ls) = Names(PresentedLoadouts(held.val, order))

\* C30: when a loadout list is presented and nothing of an import is still
\* to come (no import task is running and no hand-off is queued), the
\* config held in DMM_CFG is the config the list was made from
C30_HeldIsSource ==
    (/\ pc[1] = "running"
     /\ setup.loadouts # <<>>
     /\ i_tasks = <<>>
     /\ evq[1] = <<>>)
        => MadeFrom(setup.loadouts, dmm_cfg)

-----------------------------------------------------------------------------
(* C31, checked under SpecFetch *)

\* C31: what fetch_mod_data returns depends only on the whole response body:
\* however the transport cut the body into pieces, a call that returns
\* returns what the body decodes to when it arrives in one piece
C31_ChunkingIrrelevant ==
    (f_pc = "done" /\ f_body # <<>>) =>
        LET whole == write_function(None, f_body)
        IN  ~whole.panicked => the_mod = whole.the_mod


=============================================================================
